---- MODULE Spec2Model ----
(***************************************************************************)
(* A model of the NFL companion: the tool-use loop of NFLCompanion.chat    *)
(* and the /chat and /reset request handlers of the web version, together  *)
(* with the per-user Conversation record they read and write.              *)
(*                                                                         *)
(* Python values are modelled as follows.  A dict is a function whose      *)
(* domain is the set of keys present; a list is a sequence; a string that  *)
(* the program builds by concatenation is the sequence of its parts        *)
(* (tokens), so that what a message mentions can be read off it; None is   *)
(* the string None for string-valued places and the empty sequence for an  *)
(* optional timestamp.  json.dumps followed by json.loads returns the      *)
(* value it was given for the dicts stored here, so a stored JSON column   *)
(* is modelled by the dict itself.                                         *)
(***************************************************************************)
EXTENDS Integers, Sequences, FiniteSets, TLC

VARIABLES
    conversations,  \* rows of the conversations table that belong to the user
    now,            \* datetime.now(), in hours
    turns,          \* number of /chat requests handled so far
    last,           \* what the last request did and answered
    since_analysis, \* /chat turns handled since the one that last stored an
                    \* analysis context (-1: none has)
    call,           \* one call of NFLCompanion.chat, followed step by step
    static_diagrams, \* the files of static/diagrams: what each image shows
    pyplot,         \* matplotlib.pyplot: the figures made so far (objects)
                    \* and the ones it has registered, the current one last
    workers         \* the request threads inside generate_route_play_diagrams

chat_state == <<conversations, now, turns, last, since_analysis, call>>

rendering == <<static_diagrams, pyplot, workers>>

vars == <<conversations, now, turns, last, since_analysis, call,
          static_diagrams, pyplot, workers>>

---------------------------------------------------------------------------
(* Bounds of the model.                                                    *)

\* Tool-use iterations followed in one call of chat (SpecChat).
MaxIter == 2

\* Number of /chat requests in one behaviour.
MaxTurns == 3

\* Requests of one user in the specification of the fantasy bookkeeping.
MaxFantasyTurns == 3

\* Calls of generate_route_play_diagrams the request threads make in all.
MaxDiagramCalls == 2

---------------------------------------------------------------------------
(* Python helpers.                                                         *)

None == "<None>"

EmptyDict == <<>>

Get(d, k, default) == IF k \in DOMAIN d THEN d[k] ELSE default

Put(d, k, v) == [x \in (DOMAIN d) \cup {k} |-> IF x = k THEN v ELSE d[x]]

\* bool(s) for a str-or-None value
TruthyStr(s) == s # None /\ s # ""

\* seq[:n] for any integer n
PySlice(seq, n) ==
    IF n >= 0
    THEN SubSeq(seq, 1, IF n < Len(seq) THEN n ELSE Len(seq))
    ELSE SubSeq(seq, 1, IF Len(seq) + n > 0 THEN Len(seq) + n ELSE 0)

\* x in list
InList(x, seq) == \E i \in 1..Len(seq) : seq[i] = x

RECURSIVE Concat(_)
Concat(seqs) ==
    IF seqs = <<>> THEN <<>> ELSE Head(seqs) \o Concat(Tail(seqs))

---------------------------------------------------------------------------
(* Keyword scans of the raw user message.  A message is the sequence of    *)
(* its whitespace-separated words, lower-cased; `keyword in message` is a  *)
(* substring test, so a keyword is found inside a longer word as well.     *)

\* Pairs <<keyword, word>> where the keyword is a proper substring of the word.
ProperSubstrings ==
    { <<"ok", "okay">>, <<"sit", "position">>, <<"yes", "yesterday">>,
      <<"start", "starter">> }

WordHas(word, kw) == word = kw \/ <<kw, word>> \in ProperSubstrings

\* keyword in user_message.lower(), the keyword given as its words
Mentions(message, keyword) ==
    \E i \in 1..Len(message) :
        /\ i + Len(keyword) - 1 <= Len(message)
        /\ \A j \in 1..Len(keyword) :
              IF Len(keyword) = 1
              THEN WordHas(message[i + j - 1], keyword[j])
              ELSE message[i + j - 1] = keyword[j]

fantasy_keywords ==
    { <<"fantasy">>, <<"my", "team">>, <<"my", "roster">>, <<"trade">>,
      <<"waiver">>, <<"start">>, <<"sit">>, <<"bench">>, <<"draft">> }

affirmative_keywords ==
    { <<"yes">>, <<"yeah">>, <<"yep">>, <<"sure">>, <<"ok">>, <<"okay">>,
      <<"show", "me">>, <<"please">>, <<"absolutely">>, <<"definitely">> }

ShortMessageWords == 5

is_fantasy_question(message) ==
    \E kw \in fantasy_keywords : Mentions(message, kw)

is_short_message(message) == Len(message) <= ShortMessageWords

is_affirmative(message) ==
    (\E kw \in affirmative_keywords : Mentions(message, kw))
        /\ is_short_message(message)

---------------------------------------------------------------------------
(* Tool handlers.  `env` is what the outside world answers during the     *)
(* call: env.net is "ok" or "fail" for an HTTP fetch, env.primary and      *)
(* env.secondary are the entries of the two news feeds, env.league is "ok" *)
(* or the text of the exception the fantasy-league client raises.          *)

get_live_scores(env) ==
    IF env.net = "ok"
    THEN [success |-> TRUE, games |-> <<"401547417">>, week |-> "9"]
    ELSE [success |-> FALSE, error |-> "fetch failed",
          message |-> "Could not fetch live scores at this time"]

NFLTeams == {"Chiefs", "Bills"}

get_team_stats(team_name, env) ==
    IF env.net # "ok" THEN [success |-> FALSE, error |-> "fetch failed"]
    ELSE IF team_name \in NFLTeams
    THEN [success |-> TRUE, name |-> team_name, record |-> "N/A"]
    ELSE [success |-> FALSE, message |-> "Could not find team"]

get_play_by_play(game_id, env) ==
    IF env.net = "ok"
    THEN [success |-> TRUE, game_info |-> game_id, scoring_plays |-> <<>>]
    ELSE [success |-> FALSE, error |-> "fetch failed",
          message |-> "Could not fetch play-by-play data"]

get_injury_report(team_name) ==
    IF TruthyStr(team_name)
    THEN [success |-> TRUE, message |-> "team guidance",
          espn_injuries_url |-> "https://www.espn.com/nfl/injuries"]
    ELSE [success |-> TRUE, message |-> "general guidance",
          espn_injuries_url |-> "https://www.espn.com/nfl/injuries"]

\* A feed is [raises, entries]: whether parsing it throws, and its entries.  An
\* entry is [title, players, injury]: its headline, the player names its title
\* or summary contains, and whether either contains an injury keyword.
FeedEntries(feed, source, n) ==
    IF feed.raises THEN <<>>
    ELSE [i \in 1..Len(PySlice(feed.entries, n)) |->
             [title |-> feed.entries[i].title,
              players |-> feed.entries[i].players,
              injury |-> feed.entries[i].injury,
              source |-> source]]

get_nfl_news(limit, env) ==
    LET first == FeedEntries(env.primary, "NFL Trade Rumors", limit)
        news_items ==
            IF Len(first) < limit
            THEN first \o FeedEntries(env.secondary, "Pro Football Rumors",
                                      limit - Len(first))
            ELSE first
    IN  IF news_items # <<>>
        THEN [success |-> TRUE, news |-> news_items, count |-> Len(news_items)]
        ELSE [success |-> FALSE, news |-> <<>>,
              message |-> "Could not fetch NFL news at this time"]

search_play_highlights(query, max_results, env) ==
    IF env.net = "ok"
    THEN [success |-> TRUE, query |-> query, videos |-> <<"video">>, count |-> 1]
    ELSE [success |-> FALSE, error |-> "quota_exceeded", videos |-> <<>>,
          message |-> "YouTube API daily quota exceeded"]

\* hashlib.md5(...).hexdigest()[:8]: a digest of the text; different texts of
\* the model have different digests.
Md5Prefix(hash_input) == "#" \o hash_input

\* filename = f"{diagram_type}_{md5(f'{diagram_type}_{name}')[:8]}.png"
DiagramFile(diagram_type, name) ==
    diagram_type \o "_" \o Md5Prefix(diagram_type \o "_" \o name) \o ".png"

DiagramUrl(filename) == "/static/diagrams/" \o filename

\* Variant: the check for an existing file never finds one.
DiagramExistsNever(filename, files) == FALSE

\* os.path.exists(filepath)
DiagramExists(filename, files) == filename \in DOMAIN files

\* The handler as the dispatch of chat sees it: every name gets its diagram,
\* found or rendered, unless the directory cannot be made (env.net).
generate_route_play_diagrams(route_or_play_names, diagram_type, env) ==
    IF env.net = "ok"
    THEN [success |-> TRUE,
          diagrams |-> [i \in 1..Len(route_or_play_names) |->
                          [name |-> route_or_play_names[i],
                           url |-> DiagramUrl(DiagramFile(diagram_type,
                                                          route_or_play_names[i])),
                           success |-> TRUE]],
          count |-> Len(route_or_play_names)]
    ELSE [success |-> FALSE, error |-> "render failed",
          message |-> "Could not generate diagrams at this time"]

\* The threads of the server that handle requests at the same time.
RequestThreads == {"t1", "t2"}

\* A request thread that is not generating diagrams.
IdleThread ==
    [pc |-> "idle", names |-> <<>>, diagram_type |-> "none", i |-> 1,
     fig |-> 0, diagrams |-> <<>>, calls |-> 0, returned |-> <<>>]

\* The fixed table of receiver routes, in the order the source lists them.
receiver_routes ==
    << [name |-> "Go/Vertical", targets |-> 28, success_rate |-> 57],
       [name |-> "Slant",       targets |-> 42, success_rate |-> 79],
       [name |-> "Out",         targets |-> 35, success_rate |-> 69],
       [name |-> "Corner",      targets |-> 24, success_rate |-> 58],
       [name |-> "Post",        targets |-> 19, success_rate |-> 63],
       [name |-> "Comeback",    targets |-> 26, success_rate |-> 73],
       [name |-> "Dig/In",      targets |-> 33, success_rate |-> 79],
       [name |-> "Wheel",       targets |-> 14, success_rate |-> 50],
       [name |-> "Crossing",    targets |-> 38, success_rate |-> 82],
       [name |-> "Hitch",       targets |-> 47, success_rate |-> 85] >>

\* The fixed table of quarterback plays; Shotgun Draw has carries, no attempts.
qb_plays ==
    << [name |-> "Play Action Pass",      attempts |-> 88, success_rate |-> 74],
       [name |-> "RPO (Run-Pass Option)", attempts |-> 67, success_rate |-> 76],
       [name |-> "Bootleg",               attempts |-> 42, success_rate |-> 83],
       [name |-> "Screen Pass",           attempts |-> 47, success_rate |-> 89],
       [name |-> "Quick Slant Package",   attempts |-> 88, success_rate |-> 84],
       [name |-> "Deep Shot/Vertical",    attempts |-> 58, success_rate |-> 48],
       [name |-> "Designed Rollout",      attempts |-> 56, success_rate |-> 79],
       [name |-> "Shotgun Draw",          carries  |-> 19, success_rate |-> 63],
       [name |-> "Empty Set Pass",        attempts |-> 81, success_rate |-> 72],
       [name |-> "Two-Minute Drill",      attempts |-> 65, success_rate |-> 75] >>

\* Variant: routes are ranked by success rate alone.
RouteKeyRateOnly(r) == r.success_rate

RouteKey(r) == r.success_rate * r.targets

PlayKey(r) == r.success_rate * Get(r, "attempts", Get(r, "carries", 1))

\* sorted(items, key, reverse=True): stable, so equal keys keep table order.
\* Position k of the result is the item with exactly k-1 items before it.
SortedRoutes ==
    [k \in 1..Len(receiver_routes) |->
        receiver_routes[CHOOSE i \in 1..Len(receiver_routes) :
            Cardinality({j \in 1..Len(receiver_routes) :
                \/ RouteKey(receiver_routes[j]) > RouteKey(receiver_routes[i])
                \/ /\ RouteKey(receiver_routes[j]) = RouteKey(receiver_routes[i])
                   /\ j < i}) = k - 1]]

SortedPlays ==
    [k \in 1..Len(qb_plays) |->
        qb_plays[CHOOSE i \in 1..Len(qb_plays) :
            Cardinality({j \in 1..Len(qb_plays) :
                \/ PlayKey(qb_plays[j]) > PlayKey(qb_plays[i])
                \/ /\ PlayKey(qb_plays[j]) = PlayKey(qb_plays[i])
                   /\ j < i}) = k - 1]]

ReceiverPositions == {"WR", "TE", "RECEIVER", "WIDE RECEIVER", "TIGHT END"}

QuarterbackPositions == {"QB", "QUARTERBACK"}

\* position.upper() on the positions the model's inputs use
Upper(position) ==
    CASE position = "te" -> "TE"
      [] position = "wr" -> "WR"
      [] position = "qb" -> "QB"
      [] OTHER -> position

analyze_player_routes_plays(player_name, position, num_results) ==
    IF Upper(position) \in ReceiverPositions
    THEN [success |-> TRUE, player |-> player_name, position |-> position,
          analysis_type |-> "routes",
          top_routes |->
              LET top == PySlice(SortedRoutes, num_results)
              IN  [i \in 1..Len(top) |->
                      [route_name |-> top[i].name, targets |-> top[i].targets,
                       success_rate |-> top[i].success_rate]]]
    ELSE IF Upper(position) \in QuarterbackPositions
    THEN [success |-> TRUE, player |-> player_name, position |-> position,
          analysis_type |-> "plays",
          top_plays |->
              LET top == PySlice(SortedPlays, num_results)
              IN  [i \in 1..Len(top) |->
                      [play_name |-> top[i].name,
                       success_rate |-> top[i].success_rate]]]
    ELSE [success |-> FALSE,
          message |-> "Route/play analysis is only available for WR, TE, and QB positions"]

\* The league the fantasy client reads: its teams, in the client's order.
LeagueTeams ==
    << [team_name |-> "Sharks", wins |-> 5, losses |-> 4, points_for |-> 900,
        roster |-> << [name |-> "Travis Kelce", position |-> "TE",
                       points_total |-> 80, injury_status |-> "QUESTIONABLE"] >>],
       [team_name |-> "Jets", wins |-> 6, losses |-> 3, points_for |-> 950,
        roster |-> << [name |-> "Josh Allen", position |-> "QB",
                       points_total |-> 120, injury_status |-> "ACTIVE"] >>] >>

NumericLeagueIds == {"123456"}

\* Pairs <<given, team>>: given.lower() == team.lower(), or one contains the other.
TeamNameMatches ==
    { <<"Sharks", "Sharks">>, <<"sharks", "Sharks">>, <<"Shark", "Sharks">>,
      <<"Jets", "Jets">>, <<"jets", "Jets">> }

\* Index of the first team the name selects, 0 when there is none.  An exact
\* match anywhere in the list is preferred to a fuzzy one; the names of the
\* model's league do not contain one another, so both passes agree.
FindTeam(team_name) ==
    IF \E i \in 1..Len(LeagueTeams) :
           <<team_name, LeagueTeams[i].team_name>> \in TeamNameMatches
    THEN CHOOSE i \in 1..Len(LeagueTeams) :
           /\ <<team_name, LeagueTeams[i].team_name>> \in TeamNameMatches
           /\ \A j \in 1..(i - 1) :
                 <<team_name, LeagueTeams[j].team_name>> \notin TeamNameMatches
    ELSE 0

StandingBefore(a, b) ==
    \/ a.wins > b.wins
    \/ a.wins = b.wins /\ a.points_for > b.points_for

\* standings.sort(key=(wins, points_for), reverse=True)
Standings(my) ==
    [k \in 1..Len(LeagueTeams) |->
        LET i == CHOOSE i \in 1..Len(LeagueTeams) :
                Cardinality({j \in 1..Len(LeagueTeams) :
                    \/ StandingBefore(LeagueTeams[j], LeagueTeams[i])
                    \/ /\ ~StandingBefore(LeagueTeams[i], LeagueTeams[j])
                       /\ j < i}) = k - 1
        IN  [team_name |-> LeagueTeams[i].team_name,
             wins |-> LeagueTeams[i].wins, losses |-> LeagueTeams[i].losses,
             points_for |-> LeagueTeams[i].points_for,
             is_my_team |-> (i = my)]]

\* The except clauses of get_fantasy_team, by what the exception text contains.
FantasyError(exc) ==
    CASE exc \in {"league not found", "404"} ->
            [success |-> FALSE, error |-> exc,
             message |-> "League not found. Double-check your ESPN_LEAGUE_ID."]
      [] exc \in {"unauthorized", "401", "403"} ->
            [success |-> FALSE, error |-> exc,
             message |-> "Authentication failed. Your ESPN_S2 or ESPN_SWID cookies may be expired."]
      [] exc \in {"timeout", "timed out"} ->
            [success |-> FALSE, error |-> exc,
             message |-> "ESPN API request timed out. Try again in a moment."]
      [] exc \in {"rate limit", "429"} ->
            [success |-> FALSE, error |-> exc,
             message |-> "ESPN API rate limit reached. Please wait a minute before trying again."]
      [] OTHER ->
            [success |-> FALSE, error |-> exc,
             message |-> "Could not fetch ESPN Fantasy team."]

PrivateLeagueResult ==
    [success |-> FALSE,
     message |-> "This appears to be a private league. Please provide ESPN_S2 and ESPN_SWID cookies."]

get_fantasy_team(league_id, espn_s2, swid, year, team_name, env) ==
    IF ~TruthyStr(league_id)
    THEN [success |-> FALSE, needs_credentials |-> TRUE,
          message |-> "To connect your ESPN Fantasy team, I need your League ID."]
    ELSE IF TruthyStr(espn_s2) /\ TruthyStr(swid) /\ league_id \notin NumericLeagueIds
    THEN [success |-> FALSE, error |-> "invalid literal for int()",
          message |-> "Invalid League ID format. League ID must be a number."]
    ELSE IF TruthyStr(espn_s2) /\ TruthyStr(swid) /\ env.league # "ok"
    THEN FantasyError(env.league)
    ELSE IF league_id \notin NumericLeagueIds \/ env.league # "ok"
    THEN PrivateLeagueResult
    ELSE IF ~TruthyStr(team_name)
    THEN [success |-> TRUE, needs_team_selection |-> TRUE,
          message |-> "Please tell me which team is yours from the list below:",
          available_teams |-> [i \in 1..Len(LeagueTeams) |->
                                 LeagueTeams[i].team_name]]
    ELSE IF FindTeam(team_name) = 0
    THEN [success |-> FALSE,
          message |-> "Could not find team in this league.",
          available_teams |-> [i \in 1..Len(LeagueTeams) |->
                                 LeagueTeams[i].team_name]]
    ELSE LET my == FindTeam(team_name)
         IN  [success |-> TRUE,
              team_name |-> LeagueTeams[my].team_name,
              roster |-> LeagueTeams[my].roster,
              roster_count |-> Len(LeagueTeams[my].roster),
              current_matchup |->
                  IF env.net = "ok"
                  THEN [week |-> 9, my_score |-> 101, opponent_score |-> 99]
                  ELSE [is_none |-> TRUE],
              standings |-> Standings(my)]

InjuryScanLimit == 20

\* list(set(players)): every name once (here in order of first occurrence)
RECURSIVE Dedup(_)
Dedup(seq) ==
    IF seq = <<>> THEN <<>>
    ELSE LET front == Dedup(SubSeq(seq, 1, Len(seq) - 1))
         IN  IF InList(seq[Len(seq)], front) THEN front
             ELSE Append(front, seq[Len(seq)])

check_fantasy_team_injuries(fantasy_context, env) ==
    LET my_team == Get(fantasy_context, "my_team", <<>>)
        interested_players == Get(fantasy_context, "interested_players", <<>>)
        all_players == Dedup(my_team \o interested_players)
        news_result == get_nfl_news(InjuryScanLimit, env)
        \* one update per news item and player it mentions, if injury-related
        item_updates(item) ==
            LET hit == SelectSeq(all_players,
                                 LAMBDA p : p \in item.players /\ item.injury)
            IN  [i \in 1..Len(hit) |->
                    [player |-> hit[i], headline |-> item.title]]
        injury_updates ==
            Concat([i \in 1..Len(news_result.news) |->
                       item_updates(news_result.news[i])])
    IN  IF all_players = <<>>
        THEN [success |-> FALSE, updates |-> <<>>,
              message |-> "No fantasy team players to check"]
        ELSE IF ~news_result.success
        THEN [success |-> FALSE, updates |-> <<>>,
              message |-> "Could not fetch news for injury check"]
        ELSE [success |-> TRUE, updates |-> injury_updates,
              count |-> Len(injury_updates)]

---------------------------------------------------------------------------
(* NFLCompanion.chat.  A response of the language model is                 *)
(* [stop_reason, content, env]: content is its list of blocks, a text      *)
(* block [type, text] or a tool-use block [type, id, name, input]; env is  *)
(* what the outside world answers to the handler the response triggers.    *)
(* stop_reason "error" stands for messages.create raising.  A message of   *)
(* the log is [role, content] when its content is a string and             *)
(* [role, blocks] when its content is a list of blocks.                    *)

NoneDict == [is_none |-> TRUE]

\* bool(d) for a dict-or-None value
TruthyDict(d) == d # EmptyDict /\ d # NoneDict

InitialToolUsage ==
    [used_analyze_player_routes_plays |-> FALSE, analysis_data |-> NoneDict]

DefaultNewsLimit == 10

MaxNewsLimit == 20

DefaultNumResults == 3

DefaultMaxResults == 5

DefaultYear == 2025

Min(a, b) == IF a < b THEN a ELSE b

\* The tools declared to the model: name and required arguments.
tools ==
    [name \in {"get_live_scores", "get_team_stats", "get_play_by_play",
               "get_injury_report", "get_nfl_news", "analyze_player_routes_plays",
               "generate_route_play_diagrams", "search_play_highlights",
               "get_fantasy_team"} |->
        CASE name = "get_team_stats" -> {"team_name"}
          [] name = "get_play_by_play" -> {"game_id"}
          [] name = "analyze_player_routes_plays" -> {"player_name", "position"}
          [] name = "generate_route_play_diagrams" ->
                {"route_or_play_names", "diagram_type"}
          [] name = "search_play_highlights" -> {"query"}
          [] OTHER -> {}]

Raised(what) == [raised |-> TRUE, error |-> what]

Returned(tool_result) == [raised |-> FALSE, tool_result |-> tool_result]

\* tool_input[key] for every key of `keys`: a missing one raises KeyError
HasAll(tool_input, keys) == keys \subseteq DOMAIN tool_input

UnknownToolResult == [error |-> "Unknown tool"]

\* The if/elif chain on tool_name: the handler call of one tool-use block.
\* Variant: a stored value is used whenever there is one, supplied or not.
FantasyArgumentsStoredFirst(tool_input, fantasy_context) ==
    LET stored(arg, k) ==
            IF TruthyStr(Get(fantasy_context, k, None))
            THEN fantasy_context[k]
            ELSE Get(tool_input, arg, None)
    IN  [league_id |-> stored("league_id", "espn_league_id"),
         espn_s2 |-> stored("espn_s2", "espn_s2"),
         swid |-> stored("swid", "espn_swid"),
         year |-> Get(tool_input, "year", DefaultYear),
         team_name |-> stored("team_name", "espn_team_name")]

\* The arguments the get_fantasy_team branch passes to the handler: those
\* of the invocation, a falsy one replaced by the stored value when the
\* fantasy_context is not empty and holds a truthy one.
FantasyArguments(tool_input, fantasy_context) ==
    LET stored(arg, k) ==
            IF /\ fantasy_context # EmptyDict
               /\ ~TruthyStr(Get(tool_input, arg, None))
               /\ TruthyStr(Get(fantasy_context, k, None))
            THEN fantasy_context[k]
            ELSE Get(tool_input, arg, None)
    IN  [league_id |-> stored("league_id", "espn_league_id"),
         espn_s2 |-> stored("espn_s2", "espn_s2"),
         swid |-> stored("swid", "espn_swid"),
         year |-> Get(tool_input, "year", DefaultYear),
         team_name |-> stored("team_name", "espn_team_name")]

Dispatch(tool_use_block, fantasy_context, env) ==
    LET tool_name == tool_use_block.name
        tool_input == tool_use_block.input
    IN  CASE tool_name = "get_live_scores" ->
                Returned(get_live_scores(env))
          [] tool_name = "get_team_stats" ->
                IF HasAll(tool_input, {"team_name"})
                THEN Returned(get_team_stats(tool_input["team_name"], env))
                ELSE Raised("KeyError")
          [] tool_name = "get_play_by_play" ->
                IF HasAll(tool_input, {"game_id"})
                THEN Returned(get_play_by_play(tool_input["game_id"], env))
                ELSE Raised("KeyError")
          [] tool_name = "get_injury_report" ->
                Returned(get_injury_report(Get(tool_input, "team_name", None)))
          [] tool_name = "get_nfl_news" ->
                Returned(get_nfl_news(
                    Min(Get(tool_input, "limit", DefaultNewsLimit), MaxNewsLimit),
                    env))
          [] tool_name = "analyze_player_routes_plays" ->
                IF HasAll(tool_input, {"player_name", "position"})
                THEN Returned(analyze_player_routes_plays(
                        tool_input["player_name"], tool_input["position"],
                        Get(tool_input, "num_results", DefaultNumResults)))
                ELSE Raised("KeyError")
          [] tool_name = "generate_route_play_diagrams" ->
                IF HasAll(tool_input, {"route_or_play_names", "diagram_type"})
                THEN Returned(generate_route_play_diagrams(
                        tool_input["route_or_play_names"],
                        tool_input["diagram_type"], env))
                ELSE Raised("KeyError")
          [] tool_name = "search_play_highlights" ->
                IF HasAll(tool_input, {"query"})
                THEN Returned(search_play_highlights(
                        tool_input["query"],
                        Get(tool_input, "max_results", DefaultMaxResults), env))
                ELSE Raised("KeyError")
          [] tool_name = "get_fantasy_team" ->
                LET passed == FantasyArguments(tool_input, fantasy_context)
                IN  Returned(get_fantasy_team(
                        passed["league_id"], passed["espn_s2"], passed["swid"],
                        passed["year"], passed["team_name"], env))
          [] OTHER -> Returned(UnknownToolResult)

\* Variant: the first roster result of a turn is kept, later ones are not
\* recorded.
TrackUsageFirstRoster(tool_usage_data, tool_use_block, tool_result) ==
    CASE tool_use_block.name = "analyze_player_routes_plays" ->
            Put(Put(tool_usage_data, "used_analyze_player_routes_plays", TRUE),
                "analysis_data",
                [player_name |-> tool_use_block.input["player_name"],
                 position |-> tool_use_block.input["position"],
                 result |-> tool_result])
      [] /\ tool_use_block.name = "get_fantasy_team"
         /\ ~Get(tool_usage_data, "used_get_fantasy_team", FALSE) ->
            Put(Put(tool_usage_data, "used_get_fantasy_team", TRUE),
                "fantasy_team_data", tool_result)
      [] OTHER -> tool_usage_data

\* What the dispatch records in tool_usage_data for the caller.
TrackUsage(tool_usage_data, tool_use_block, tool_result) ==
    CASE tool_use_block.name = "analyze_player_routes_plays" ->
            Put(Put(tool_usage_data, "used_analyze_player_routes_plays", TRUE),
                "analysis_data",
                [player_name |-> tool_use_block.input["player_name"],
                 position |-> tool_use_block.input["position"],
                 result |-> tool_result])
      [] tool_use_block.name = "get_fantasy_team" ->
            Put(Put(tool_usage_data, "used_get_fantasy_team", TRUE),
                "fantasy_team_data", tool_result)
      [] OTHER -> tool_usage_data

ToolUseBlocks(content) == SelectSeq(content, LAMBDA b : b.type = "tool_use")

\* The blocks kept when the response is serialized into the log.
SerializedContent(content) ==
    SelectSeq(content, LAMBDA b : b.type \in {"text", "tool_use"})

\* Variant: the tool result is filed under another id than the invocation's.
ToolResultMessageOtherId(tool_use_block, tool_result) ==
    [role |-> "user",
     blocks |-> << [type |-> "tool_result",
                    tool_use_id |-> tool_use_block.id + 100,
                    content |-> tool_result] >>]

\* The user message that answers the invocation.  Its content is
\* json.dumps(tool_result), which writes every key and value of the result;
\* the block keeps the result itself.
ToolResultMessage(tool_use_block, tool_result) ==
    [role |-> "user",
     blocks |-> << [type |-> "tool_result",
                    tool_use_id |-> tool_use_block.id,
                    content |-> tool_result] >>]

\* One pass of the while loop up to (not including) the next model call.
\* Variant: the last tool_use block of the response is the one acted on.
LastToolUseBlock(content) == ToolUseBlocks(content)[Len(ToolUseBlocks(content))]

\* next(block for block in response.content if block.type == "tool_use")
NextToolUseBlock(content) == Head(ToolUseBlocks(content))

LoopBody(response, conversation_history, tool_usage_data, fantasy_context) ==
    IF ToolUseBlocks(response.content) = <<>>
    THEN Raised("StopIteration")
    ELSE LET tool_use_block == NextToolUseBlock(response.content)
             d == Dispatch(tool_use_block, fantasy_context, response.env)
         IN  IF d.raised THEN d
             ELSE [raised |-> FALSE,
                   tool_name |-> tool_use_block.name,
                   tool_result |-> d.tool_result,
                   tool_usage_data |->
                       TrackUsage(tool_usage_data, tool_use_block, d.tool_result),
                   conversation_history |->
                       conversation_history \o
                       << [role |-> "assistant",
                           blocks |-> SerializedContent(response.content)],
                          ToolResultMessage(tool_use_block, d.tool_result) >>]

\* assistant_message: the text of every block that has one, concatenated.
FinalText(content) ==
    Concat([i \in 1..Len(SelectSeq(content, LAMBDA b : "text" \in DOMAIN b)) |->
               SelectSeq(content, LAMBDA b : "text" \in DOMAIN b)[i].text])

\* The model calls of chat from the one made with conversation_history on;
\* script[k] is what the k-th of them returns.  `calls` collects the message
\* list given to every call and `dispatched` the handlers run, in order.
RECURSIVE ToolLoop(_, _, _, _, _, _)
ToolLoop(script, conversation_history, tool_usage_data, fantasy_context, calls, dispatched) ==
    LET response == Head(script)
        sent == Append(calls, conversation_history)
        escaped(what) ==
            [raised |-> TRUE, error |-> what, calls |-> sent,
             dispatched |-> dispatched,
             conversation_history |-> conversation_history]
    IN  IF response.stop_reason = "error" THEN escaped("APIError")
        ELSE IF response.stop_reason = "tool_use"
        THEN LET body == LoopBody(response, conversation_history,
                                  tool_usage_data, fantasy_context)
             IN  IF body.raised THEN escaped(body.error)
                 ELSE ToolLoop(Tail(script), body.conversation_history,
                               body.tool_usage_data, fantasy_context, sent,
                               Append(dispatched, body.tool_name))
        ELSE [raised |-> FALSE,
              assistant_message |-> FinalText(response.content),
              conversation_history |->
                  Append(conversation_history,
                         [role |-> "assistant",
                          content |-> FinalText(response.content)]),
              tool_usage_data |-> tool_usage_data,
              calls |-> sent,
              dispatched |-> dispatched]

\* chat(user_message, conversation_history, fantasy_context)
Chat(user_message, conversation_history, fantasy_context, script) ==
    ToolLoop(script,
             Append(conversation_history,
                    [role |-> "user", content |-> user_message]),
             InitialToolUsage, fantasy_context, <<>>, <<>>)

---------------------------------------------------------------------------
(* The Conversation row and the /chat request handler of the web version. *)

DefaultFantasyContext ==
    [my_team |-> <<>>, interested_players |-> <<>>, trade_history |-> <<>>]

\* A row as the column defaults make it; last_injury_check is <<>> for NULL
\* and <<t>> for the timestamp t.
NewConversation ==
    [history |-> <<>>,
     fantasy_context |-> DefaultFantasyContext,
     recent_analysis_context |-> EmptyDict,
     last_injury_check |-> <<>>]

\* The user's rows after get_or_create_conversation; it returns the first.
get_or_create_conversation(rows) ==
    IF rows = <<>> THEN <<NewConversation>> ELSE rows

InjuryCheckHours == 24

\* Variant: the gate opens only after more than InjuryCheckHours.
should_check_injuries_after(conversation, clock) ==
    IF conversation.last_injury_check = <<>> THEN TRUE
    ELSE clock - conversation.last_injury_check[1] > InjuryCheckHours

should_check_injuries(conversation, clock) ==
    IF conversation.last_injury_check = <<>> THEN TRUE
    ELSE clock - conversation.last_injury_check[1] >= InjuryCheckHours

has_fantasy_data(fantasy_context) ==
    \/ Get(fantasy_context, "my_team", <<>>) # <<>>
    \/ Get(fantasy_context, "interested_players", <<>>) # <<>>

\* injury_update_message, <<>> standing for None
InjuryUpdateMessage(injury_check_result) ==
    IF /\ Get(injury_check_result, "success", FALSE)
       /\ Get(injury_check_result, "count", 0) > 0
    THEN <<"By the way - here's an injury update for your fantasy team:">>
         \o Concat([i \in 1..Len(injury_check_result.updates) |->
                       << injury_check_result.updates[i].player,
                          injury_check_result.updates[i].headline >>])
    ELSE <<>>

\* Variant: the context message is injected without the acknowledgement.
PrimerUnacknowledged(context_message, acknowledgement) ==
    << [role |-> "user", content |-> context_message] >>

Primer(context_message, acknowledgement) ==
    << [role |-> "user", content |-> context_message],
       [role |-> "assistant", content |-> <<acknowledgement>>] >>

AnalysisHeader == "RECENT ROUTE/PLAY ANALYSIS CONTEXT:"

RoutesShown == "Analysis showed these top:"

AnalysisTypeLabel == "Analysis type:"

AffirmativeNote == "User is now responding affirmatively:"

\* Variant: the primer names the first two routes only.
AnalysisPrimerTwoRoutes(recent_analysis_context, user_message) ==
    LET analysis_data == Get(recent_analysis_context, "analysis_data", EmptyDict)
        player_name == Get(analysis_data, "player_name", "Unknown Player")
        position == Get(analysis_data, "position", "Unknown Position")
        result == Get(analysis_data, "result", EmptyDict)
        top_routes == PySlice(Get(result, "top_routes", <<>>), 2)
        route_names == [i \in 1..Len(top_routes) |->
                           Get(top_routes[i], "route_name", "Unknown")]
    IN  IF ~TruthyDict(analysis_data) THEN <<>>
        ELSE Primer(
                <<AnalysisHeader, player_name, position>>
                \o (IF Get(result, "success", FALSE) /\ top_routes # <<>>
                    THEN <<RoutesShown,
                           IF position \in {"WR", "TE"} THEN "routes" ELSE "plays">>
                         \o route_names
                         \o <<AnalysisTypeLabel,
                              Get(result, "analysis_type", "routes")>>
                    ELSE <<>>)
                \o <<AffirmativeNote>> \o user_message,
                "I understand the context from our previous exchange.")

\* The messages injected for a short affirmative reply (none when the stored
\* context has no analysis_data).
AnalysisPrimer(recent_analysis_context, user_message) ==
    LET analysis_data == Get(recent_analysis_context, "analysis_data", EmptyDict)
        player_name == Get(analysis_data, "player_name", "Unknown Player")
        position == Get(analysis_data, "position", "Unknown Position")
        result == Get(analysis_data, "result", EmptyDict)
        top_routes == Get(result, "top_routes", <<>>)
        route_names == [i \in 1..Len(top_routes) |->
                           Get(top_routes[i], "route_name", "Unknown")]
    IN  IF ~TruthyDict(analysis_data) THEN <<>>
        ELSE Primer(
                <<AnalysisHeader, player_name, position>>
                \o (IF Get(result, "success", FALSE) /\ top_routes # <<>>
                    THEN <<RoutesShown,
                           IF position \in {"WR", "TE"} THEN "routes" ELSE "plays">>
                         \o route_names
                         \o <<AnalysisTypeLabel,
                              Get(result, "analysis_type", "routes")>>
                    ELSE <<>>)
                \o <<AffirmativeNote>> \o user_message,
                "I understand the context from our previous exchange.")

TeamSelectionHeader == "TEAM SELECTION CONTEXT:"

TeamSelectionPrimer(user_message) ==
    Primer(<<TeamSelectionHeader, "The user has responded with:">>
           \o user_message
           \o <<"Call get_fantasy_team with team_name=">> \o user_message
           \o <<"Use the stored ESPN credentials from the fantasy context.">>,
           "I understand. I'll fetch their roster now.")

FantasyHeader == "FANTASY FOOTBALL CONTEXT:"

has_context(fantasy_context) ==
    \/ Get(fantasy_context, "my_team", <<>>) # <<>>
    \/ Get(fantasy_context, "interested_players", <<>>) # <<>>
    \/ Get(fantasy_context, "trade_history", <<>>) # <<>>
    \/ Get(fantasy_context, "espn_roster", <<>>) # <<>>

\* Building the fantasy primer calls standings.get(...) on espn_standings,
\* which the handler stores as the list the roster tool returned: with a
\* stored roster and non-empty standings that raises AttributeError.
FantasyPrimerRaises(fantasy_context) ==
    /\ Get(fantasy_context, "espn_roster", <<>>) # <<>>
    /\ Get(fantasy_context, "espn_standings", <<>>) # <<>>

FantasyPrimer(fantasy_context) ==
    LET league_id == Get(fantasy_context, "espn_league_id", None)
        espn_s2 == Get(fantasy_context, "espn_s2", None)
        espn_swid == Get(fantasy_context, "espn_swid", None)
        espn_roster == Get(fantasy_context, "espn_roster", <<>>)
        espn_team_name == Get(fantasy_context, "espn_team_name", "Unknown")
    IN  Primer(
            <<FantasyHeader>>
            \o (IF TruthyStr(league_id)
                THEN <<"league_id:", league_id>>
                     \o (IF TruthyStr(espn_s2) THEN <<"espn_s2:", espn_s2>> ELSE <<>>)
                     \o (IF TruthyStr(espn_swid) THEN <<"swid:", espn_swid>> ELSE <<>>)
                ELSE <<>>)
            \o (IF espn_roster # <<>>
                THEN <<"ESPN Fantasy Team:", espn_team_name>>
                     \o [i \in 1..Len(espn_roster) |-> espn_roster[i].name]
                     \o <<"use team_name=", espn_team_name>>
                ELSE <<>>)
            \o (IF Get(fantasy_context, "my_team", <<>>) # <<>>
                THEN <<"My Team (manual):">> \o fantasy_context["my_team"]
                ELSE <<>>)
            \o (IF Get(fantasy_context, "interested_players", <<>>) # <<>>
                THEN <<"Players I'm Interested In:">>
                     \o fantasy_context["interested_players"]
                ELSE <<>>)
            \o (IF Get(fantasy_context, "trade_history", <<>>) # <<>>
                THEN <<"Trade History:">> \o fantasy_context["trade_history"]
                ELSE <<>>),
            "I'll remember your fantasy football context.")

\* Variant: the stored history of earlier turns goes in front of the primers.
PrimingMessagesAfterHistory(conversation, user_message) ==
    LET recent_analysis_context == conversation.recent_analysis_context
        fantasy_context == conversation.fantasy_context
    IN  conversation.history
        \o (IF is_affirmative(user_message) /\ recent_analysis_context # EmptyDict
            THEN AnalysisPrimer(recent_analysis_context, user_message)
            ELSE <<>>)
        \o (IF Get(fantasy_context, "awaiting_team_selection", FALSE)
            THEN TeamSelectionPrimer(user_message)
            ELSE IF is_fantasy_question(user_message) /\ has_context(fantasy_context)
            THEN FantasyPrimer(fantasy_context)
            ELSE <<>>)

\* conversation_history as the handler hands it to chat: it starts empty and
\* the primers are appended in the handler's order.
PrimingMessages(conversation, user_message) ==
    LET recent_analysis_context == conversation.recent_analysis_context
        fantasy_context == conversation.fantasy_context
    IN  (IF is_affirmative(user_message) /\ recent_analysis_context # EmptyDict
         THEN AnalysisPrimer(recent_analysis_context, user_message)
         ELSE <<>>)
        \o (IF Get(fantasy_context, "awaiting_team_selection", FALSE)
            THEN TeamSelectionPrimer(user_message)
            ELSE IF is_fantasy_question(user_message) /\ has_context(fantasy_context)
            THEN FantasyPrimer(fantasy_context)
            ELSE <<>>)

PrimingRaises(conversation, user_message) ==
    /\ ~Get(conversation.fantasy_context, "awaiting_team_selection", FALSE)
    /\ is_fantasy_question(user_message)
    /\ has_context(conversation.fantasy_context)
    /\ FantasyPrimerRaises(conversation.fantasy_context)

\* The token that follows `marker` in the message when it is one of `valid`
\* (what the credential regular expressions capture), else None.
CredentialAfter(message, marker, valid) ==
    IF \E i \in 1..(Len(message) - Len(marker)) :
           /\ SubSeq(message, i, i + Len(marker) - 1) = marker
           /\ message[i + Len(marker)] \in valid
    THEN message[Len(marker) + CHOOSE i \in 1..(Len(message) - Len(marker)) :
           /\ SubSeq(message, i, i + Len(marker) - 1) = marker
           /\ message[i + Len(marker)] \in valid
           /\ \A j \in 1..(i - 1) :
                 ~(/\ SubSeq(message, j, j + Len(marker) - 1) = marker
                   /\ message[j + Len(marker)] \in valid)]
    ELSE None

S2Cookies == {"AEBs2cookie"}

Swids == {"{SWID}"}

\* fantasy_context with the credentials found in the user's message
WithCredentials(fantasy_context, user_message) ==
    LET direct == CredentialAfter(user_message, <<"league", "id">>, NumericLeagueIds)
        league_id == IF direct # None THEN direct
                     ELSE CredentialAfter(user_message, <<"league", "id", "is">>,
                                          NumericLeagueIds)
        s2 == CredentialAfter(user_message, <<"s2">>, S2Cookies)
        swid == CredentialAfter(user_message, <<"swid">>, Swids)
        a == IF league_id # None
             THEN Put(fantasy_context, "espn_league_id", league_id)
             ELSE fantasy_context
        b == IF s2 # None THEN Put(a, "espn_s2", s2) ELSE a
    IN  IF swid # None THEN Put(b, "espn_swid", swid) ELSE b

\* for x in new: if x and x not in have: have.append(x)
RECURSIVE AppendNew(_, _)
AppendNew(have, new) ==
    IF new = <<>> THEN have
    ELSE AppendNew(IF Head(new) # "" /\ ~InList(Head(new), have)
                   THEN Append(have, Head(new)) ELSE have,
                   Tail(new))

\* Variant: a trade equal to one already stored is skipped.
AppendAllDistinct(have, new) == AppendNew(have, new)

\* for x in new: if x: have.append(x)
AppendAll(have, new) == have \o SelectSeq(new, LAMBDA x : x # "")

MergeFantasyData(fantasy_context, new_fantasy_data) ==
    [fantasy_context EXCEPT
        !["my_team"] = AppendNew(@, Get(new_fantasy_data, "my_team", <<>>)),
        !["interested_players"] =
            AppendNew(@, Get(new_fantasy_data, "interested_players", <<>>)),
        !["trade_history"] =
            AppendAll(@, Get(new_fantasy_data, "trade_history", <<>>))]

\* The keys of the extracted object whose JSON value is null: the data of a
\* "json" outcome lists them in its field nulls and gives the other keys
\* their lists.
NullKeys(new_fantasy_data) == Get(new_fantasy_data, "nulls", {})

\* `for x in new_fantasy_data.get(key, [])` raises TypeError on a null.
MergeRaises(new_fantasy_data) ==
    NullKeys(new_fantasy_data)
        \cap {"my_team", "interested_players", "trade_history"} # {}

\* The extraction call was not made.
NoExtraction == [kind |-> "none"]

\* Variant: a merge that raises part-way stores what it had merged so far.
ExtractFantasyContextPartial(fantasy_context, user_message, extract) ==
    LET saved == WithCredentials(fantasy_context, user_message)
    IN  IF extract.kind = "json"
        THEN MergeFantasyData(saved, extract.data)
        ELSE saved

\* The try block run for a fantasy question after chat returned.  `extract`
\* is the outcome of the secondary model call: kind "raise" (the call
\* throws), "prose" (no JSON object in the text), "badjson" (a brace pair
\* that does not parse) or "json" (the object in `data`).  The merge works
\* on a copy parsed from the row and the row is assigned only when the
\* merge has finished, so a merge that raises stores nothing.
ExtractFantasyContext(fantasy_context, user_message, extract) ==
    LET saved == WithCredentials(fantasy_context, user_message)
    IN  IF extract.kind = "json" /\ ~MergeRaises(extract.data)
        THEN MergeFantasyData(saved, extract.data)
        ELSE saved

\* What the handler persists from tool_usage after chat returned.
StoreAnalysisContext(conversation, user_message, tool_usage) ==
    IF Get(tool_usage, "used_analyze_player_routes_plays", FALSE)
    THEN [conversation EXCEPT !.recent_analysis_context = tool_usage]
    ELSE IF /\ is_affirmative(user_message)
            /\ conversation.recent_analysis_context # EmptyDict
    THEN [conversation EXCEPT !.recent_analysis_context = EmptyDict]
    ELSE conversation

\* Variant: a recorded roster result that is not a team list clears the
\* awaiting_team_selection flag, successful or not.
StoreFantasyTeamClearsFlag(conversation, tool_usage, clock) ==
    LET fantasy_team_data == Get(tool_usage, "fantasy_team_data", EmptyDict)
        fantasy_context == conversation.fantasy_context
    IN  IF ~Get(tool_usage, "used_get_fantasy_team", FALSE) THEN conversation
        ELSE [conversation EXCEPT !.fantasy_context =
                Put(fantasy_context, "awaiting_team_selection",
                    Get(fantasy_team_data, "needs_team_selection", FALSE))]

\* Variant: a fetched roster leaves the awaiting_team_selection flag as it was.
StoreFantasyTeamKeepsFlag(conversation, tool_usage, clock) ==
    LET fantasy_team_data == Get(tool_usage, "fantasy_team_data", EmptyDict)
        fantasy_context == conversation.fantasy_context
    IN  IF ~Get(tool_usage, "used_get_fantasy_team", FALSE) THEN conversation
        ELSE IF /\ Get(fantasy_team_data, "success", FALSE)
                /\ ~Get(fantasy_team_data, "needs_team_selection", FALSE)
        THEN [conversation EXCEPT !.fantasy_context =
                Put(Put(Put(Put(Put(fantasy_context,
                    "espn_roster", Get(fantasy_team_data, "roster", <<>>)),
                    "espn_matchup", Get(fantasy_team_data, "matchup", EmptyDict)),
                    "espn_standings", Get(fantasy_team_data, "standings", EmptyDict)),
                    "espn_team_name", Get(fantasy_team_data, "team_name", None)),
                    "last_espn_fetch", clock)]
        ELSE IF Get(fantasy_team_data, "needs_team_selection", FALSE)
        THEN [conversation EXCEPT !.fantasy_context =
                Put(fantasy_context, "awaiting_team_selection", TRUE)]
        ELSE conversation

StoreFantasyTeam(conversation, tool_usage, clock) ==
    LET fantasy_team_data == Get(tool_usage, "fantasy_team_data", EmptyDict)
        fantasy_context == conversation.fantasy_context
    IN  IF ~Get(tool_usage, "used_get_fantasy_team", FALSE) THEN conversation
        ELSE IF /\ Get(fantasy_team_data, "success", FALSE)
                /\ ~Get(fantasy_team_data, "needs_team_selection", FALSE)
        THEN [conversation EXCEPT !.fantasy_context =
                Put(Put(Put(Put(Put(Put(fantasy_context,
                    "espn_roster", Get(fantasy_team_data, "roster", <<>>)),
                    "espn_matchup", Get(fantasy_team_data, "matchup", EmptyDict)),
                    "espn_standings", Get(fantasy_team_data, "standings", EmptyDict)),
                    "espn_team_name", Get(fantasy_team_data, "team_name", None)),
                    "last_espn_fetch", clock),
                    "awaiting_team_selection", FALSE)]
        ELSE IF Get(fantasy_team_data, "needs_team_selection", FALSE)
        THEN [conversation EXCEPT !.fantasy_context =
                Put(fantasy_context, "awaiting_team_selection", TRUE)]
        ELSE conversation

\* Variant: the except clause answers as if the turn had succeeded.
ErrorResponseOk(e) == [status |-> 200, body |-> [error |-> e, success |-> TRUE]]

\* The answer of the handler's except clause.
ErrorResponse(e) == [status |-> 500, body |-> [error |-> e, success |-> FALSE]]

\* The except clause of the handler: nothing of the turn is stored beyond
\* what was committed before the failure.
ChatFailed(created, checked, error, calls, dispatched, log) ==
    [rows |-> <<checked>> \o Tail(created),
     status |-> ErrorResponse(error).status,
     body |-> ErrorResponse(error).body,
     calls |-> calls, dispatched |-> dispatched, log |-> log,
     tool_usage |-> InitialToolUsage, extraction |-> FALSE,
     extract |-> NoExtraction]

\* The handler from the return (or exception) of chat on.
AfterChat(created, checked, user_message, clock, extract, injury_update_message, chat) ==
    IF chat.raised
    THEN ChatFailed(created, checked, chat.error, chat.calls, chat.dispatched,
                    chat.conversation_history)
    ELSE LET analysed == StoreAnalysisContext(checked, user_message,
                                              chat.tool_usage_data)
             fetched == StoreFantasyTeam(analysed, chat.tool_usage_data, clock)
             extracted ==
                 IF is_fantasy_question(user_message)
                 THEN [fetched EXCEPT !.fantasy_context =
                         ExtractFantasyContext(@, user_message, extract)]
                 ELSE fetched
             saved == [extracted EXCEPT !.history = chat.conversation_history]
         IN  [rows |-> <<saved>> \o Tail(created),
              status |-> 200,
              body |-> [response |-> injury_update_message \o chat.assistant_message,
                        success |-> TRUE],
              calls |-> chat.calls, dispatched |-> chat.dispatched,
              log |-> chat.conversation_history,
              tool_usage |-> chat.tool_usage_data,
              extraction |-> is_fantasy_question(user_message),
              extract |-> IF is_fantasy_question(user_message)
                          THEN extract ELSE NoExtraction]

\* The outcome of a request together with what the request was and did
\* before chat was called.
Recorded(user_message, script, scan, injury_update_message, priming, outcome) ==
    [rows |-> outcome.rows, op |-> "chat", status |-> outcome.status,
     body |-> outcome.body, user_message |-> user_message, script |-> script,
     scan |-> scan, injury_update_message |-> injury_update_message,
     priming |-> priming, calls |-> outcome.calls,
     dispatched |-> outcome.dispatched, log |-> outcome.log,
     tool_usage |-> outcome.tool_usage, extraction |-> outcome.extraction,
     extract |-> outcome.extract]

\* The /chat handler for one request: the user's rows afterwards, the HTTP
\* status and JSON body of the answer, and a record of what the request did
\* (calls: the message list given to each model call of chat; tool_usage:
\* what chat returned as tool usage, the initial one when it returned
\* nothing; extraction: whether the extraction call was made, and extract
\* its outcome).  `clock` is
\* datetime.now(), `script` the answers of the language model to the calls
\* of chat, `scan_env` the news feeds the injury scan reads and `extract`
\* the outcome of the extraction call.
HandleChat(rows, user_message, clock, script, scan_env, extract) ==
    LET created == get_or_create_conversation(rows)
        conversation == created[1]
        scan == /\ should_check_injuries(conversation, clock)
                /\ has_fantasy_data(conversation.fantasy_context)
        injury_update_message ==
            IF scan
            THEN InjuryUpdateMessage(
                    check_fantasy_team_injuries(conversation.fantasy_context, scan_env))
            ELSE <<>>
        checked == IF scan
                   THEN [conversation EXCEPT !.last_injury_check = <<clock>>]
                   ELSE conversation
        priming == PrimingMessages(checked, user_message)
    IN  IF user_message = <<>>
        THEN [rows |-> rows, op |-> "chat", status |-> 400,
              body |-> [error |-> "No message provided"],
              user_message |-> user_message, script |-> script, scan |-> FALSE,
              injury_update_message |-> <<>>, priming |-> <<>>,
              calls |-> <<>>, dispatched |-> <<>>, log |-> <<>>,
              tool_usage |-> InitialToolUsage, extraction |-> FALSE,
              extract |-> NoExtraction]
        ELSE Recorded(user_message, script, scan, injury_update_message, priming,
                IF PrimingRaises(checked, user_message)
                THEN ChatFailed(created, checked, "AttributeError", <<>>, <<>>, <<>>)
                ELSE AfterChat(created, checked, user_message, clock, extract,
                               injury_update_message,
                               Chat(user_message, priming,
                                    checked.fantasy_context, script)))

\* Variant: the reset also drops the stored analysis context.
HandleResetAll(rows) ==
    LET created == get_or_create_conversation(rows)
    IN  <<[created[1] EXCEPT !.history = <<>>,
                             !.recent_analysis_context = EmptyDict]>>
        \o Tail(created)

\* The /reset handler: history cleared, nothing else written.
HandleReset(rows) ==
    LET created == get_or_create_conversation(rows)
    IN  <<[created[1] EXCEPT !.history = <<>>]>> \o Tail(created)

---------------------------------------------------------------------------
(* Inputs: what the user sends, what the language model answers and what  *)
(* the outside world returns.                                              *)

Text(t) == [type |-> "text", text |-> t]

ToolUse(id, name, input) ==
    [type |-> "tool_use", id |-> id, name |-> name, input |-> input]

EmptyFeed == [raises |-> FALSE, entries |-> <<>>]

QuietEnv ==
    [net |-> "ok", league |-> "ok", primary |-> EmptyFeed, secondary |-> EmptyFeed]

\* User messages: empty, neutral, short affirmative, a fantasy question, and
\* one that is both a short affirmative and a fantasy question.
Messages ==
    { <<>>,
      <<"who", "won">>,
      <<"yes">>,
      <<"trade", "advice">>,
      <<"yes", "start", "him">> }

\* Hours between one request and the next, where the request reads the clock.
Elapsed == {23, 24}

\* Tool invocations the model emits: [name, input, env].
Invoke(name, input, env) == [name |-> name, input |-> input, env |-> env]

AnalyzeKelce ==
    Invoke("analyze_player_routes_plays",
           [player_name |-> "Travis Kelce", position |-> "TE"], QuietEnv)

ListTeams ==
    Invoke("get_fantasy_team", [league_id |-> "123456"], QuietEnv)

FetchSharks ==
    Invoke("get_fantasy_team",
           [league_id |-> "123456", team_name |-> "Sharks"], QuietEnv)

UnknownTool == Invoke("get_weather", EmptyDict, QuietEnv)

StatsNoTeam == Invoke("get_team_stats", EmptyDict, QuietEnv)

\* The k-th response of a turn asking for one tool.
ToolResponse(k, inv) ==
    [stop_reason |-> "tool_use",
     content |-> <<ToolUse(10 * k + 1, inv.name, inv.input)>>,
     env |-> inv.env]

EndTurn ==
    [stop_reason |-> "end_turn", content |-> <<Text(<<"answer">>)>>,
     env |-> QuietEnv]

ApiError == [stop_reason |-> "error", content |-> <<>>, env |-> QuietEnv]

\* Scripts of a /chat request: what the model answers to the successive calls
\* of chat.  A plain answer; a failing call; one tool and then an answer; a
\* tool and then a failing call; a tool request without its required argument.
Scripts ==
    { <<EndTurn>>,
      <<ApiError>>,
      <<ToolResponse(1, AnalyzeKelce), EndTurn>>,
      <<ToolResponse(1, AnalyzeKelce), ApiError>>,
      <<ToolResponse(1, ListTeams), EndTurn>>,
      <<ToolResponse(1, FetchSharks), EndTurn>>,
      <<ToolResponse(1, StatsNoTeam)>> }

InjuryNews ==
    [raises |-> FALSE,
     entries |-> << [title |-> "Kelce questionable", players |-> {"Travis Kelce"},
                     injury |-> TRUE] >>]

OtherNews ==
    [raises |-> FALSE,
     entries |-> << [title |-> "Kelce signs deal", players |-> {"Travis Kelce"},
                     injury |-> FALSE] >>]

\* The feeds the injury scan may find: nothing, or an injury item.
ScanEnvs ==
    { QuietEnv, [QuietEnv EXCEPT !.primary = InjuryNews] }

\* Outcomes of the extraction call.
Extractions ==
    { [kind |-> "prose"],
      [kind |-> "json", data |-> [my_team |-> <<"Travis Kelce">>]] }

---------------------------------------------------------------------------
(* The requests of one user, handled one after another.                    *)

NoCall ==
    [pc |-> "none", conversation_history |-> <<>>,
     tool_usage_data |-> InitialToolUsage,
     fantasy_context |-> DefaultFantasyContext,
     calls |-> <<>>, dispatched |-> <<>>, results |-> <<>>,
     asked |-> None, error |-> None, iterations |-> 0]

Init ==
    /\ conversations = <<>>
    /\ now = 0
    /\ turns = 0
    /\ last = [op |-> "none"]
    /\ since_analysis = -1
    /\ call = NoCall
    /\ static_diagrams = EmptyDict
    /\ pyplot = [objects |-> <<>>, managed |-> <<>>]
    /\ workers = [w \in RequestThreads |-> IdleThread]

\* Only the inputs that the request reads are varied: the news feeds when the
\* injury scan runs, the extraction outcome when the extraction call is
\* made, and the time elapsed once there is a timestamp and players to
\* compare it with.
WillScan(rows, clock) ==
    LET conversation == get_or_create_conversation(rows)[1]
    IN  /\ should_check_injuries(conversation, clock)
        /\ has_fantasy_data(conversation.fantasy_context)

ReadsClock(rows) ==
    LET conversation == get_or_create_conversation(rows)[1]
    IN  /\ conversation.last_injury_check # <<>>
        /\ has_fantasy_data(conversation.fantasy_context)

ChatRequest ==
    /\ turns < MaxTurns
    /\ \E user_message \in Messages,
          dt \in (IF ReadsClock(conversations) THEN Elapsed ELSE {1}) :
       \E script \in (IF user_message = <<>> THEN {<<EndTurn>>} ELSE Scripts),
          scan_env \in (IF user_message # <<>> /\ WillScan(conversations, now + dt)
                        THEN ScanEnvs ELSE {QuietEnv}) :
       \E r0 \in {HandleChat(conversations, user_message, now + dt, script,
                              scan_env, [kind |-> "prose"])} :
       \E r \in (IF r0.extraction
                 THEN {HandleChat(conversations, user_message, now + dt, script,
                                  scan_env, extract) : extract \in Extractions}
                 ELSE {r0}) :
              /\ conversations' = r.rows
              /\ last' = [r EXCEPT !.rows = <<>>]
              /\ now' = now + dt
              /\ turns' = turns + 1
              /\ since_analysis' =
                    IF /\ r.status = 200
                       /\ InList("analyze_player_routes_plays", r.dispatched)
                    THEN 0
                    ELSE IF since_analysis >= 0 /\ r.status # 400
                    THEN since_analysis + 1
                    ELSE since_analysis
              /\ UNCHANGED <<call, rendering>>

ResetRequest ==
    /\ conversations' = HandleReset(conversations)
    /\ last' = [op |-> "reset", status |-> 200,
                body |-> [success |-> TRUE, message |-> "Conversation reset"]]
    /\ UNCHANGED <<now, turns, since_analysis, call, rendering>>

Next == ChatRequest \/ ResetRequest

Spec == Init /\ [][Next]_vars

---------------------------------------------------------------------------
(* The fantasy bookkeeping: requests of one user whose extraction call has *)
(* every kind of outcome.                                                  *)

\* A fantasy question, one that also gives the league id, and a message
\* without a fantasy keyword.
FantasyMessages ==
    { <<"trade", "advice">>,
      <<"fantasy", "league", "id", "123456">>,
      <<"who", "won">> }

FantasyScripts ==
    { <<EndTurn>>, <<ToolResponse(1, FetchSharks), EndTurn>>, <<ApiError>> }

\* Outcomes of the extraction call: it raises; plain text; braces that do
\* not parse; objects with a new player, with repeated and empty entries,
\* with all three lists; and an object whose interested_players is null, so
\* that the merge raises after the my_team loop.
FantasyExtractions ==
    { [kind |-> "raise"],
      [kind |-> "prose"],
      [kind |-> "badjson"],
      [kind |-> "json", data |-> [my_team |-> <<"Travis Kelce">>]],
      [kind |-> "json",
       data |-> [my_team |-> <<"Travis Kelce", "", "Travis Kelce">>,
                 trade_history |-> <<"Kelce for Allen", "", "Kelce for Allen">>]],
      [kind |-> "json",
       data |-> [my_team |-> <<"Josh Allen", "Travis Kelce">>,
                 interested_players |-> <<"Josh Allen">>,
                 trade_history |-> <<"Kelce for Allen">>]],
      [kind |-> "json",
       data |-> [my_team |-> <<"Josh Allen">>,
                 nulls |-> {"interested_players"}]] }

FantasyRequest ==
    /\ turns < MaxFantasyTurns
    /\ \E user_message \in FantasyMessages, script \in FantasyScripts,
          scan_env \in (IF WillScan(conversations, now + 1)
                        THEN ScanEnvs ELSE {QuietEnv}) :
       \E r0 \in {HandleChat(conversations, user_message, now + 1, script,
                              scan_env, [kind |-> "prose"])} :
       \E r \in (IF r0.extraction
                 THEN {HandleChat(conversations, user_message, now + 1, script,
                                  scan_env, extract) : extract \in FantasyExtractions}
                 ELSE {r0}) :
              /\ conversations' = r.rows
              /\ last' = [r EXCEPT !.rows = <<>>]
              /\ now' = now + 1
              /\ turns' = turns + 1
              /\ UNCHANGED <<since_analysis, call, rendering>>

NextFantasy == FantasyRequest \/ ResetRequest

SpecFantasy == Init /\ [][NextFantasy]_vars

---------------------------------------------------------------------------
(* One call of NFLCompanion.chat followed from model call to model call.   *)
(* call.pc is "calling" while messages.create runs on                      *)
(* call.conversation_history, "returned" after the return statement and    *)
(* "raised" when an exception left the function.                           *)

StoredCredentials ==
    [my_team |-> <<>>, interested_players |-> <<>>, trade_history |-> <<>>,
     espn_league_id |-> "123456"]

\* What the model may ask for in one tool-use block, with the world's answer.
ChatInvocations ==
    { Invoke("get_live_scores", EmptyDict, QuietEnv),
      Invoke("get_live_scores", EmptyDict, [QuietEnv EXCEPT !.net = "fail"]),
      Invoke("get_team_stats", [team_name |-> "Chiefs"], QuietEnv),
      Invoke("get_team_stats", [team_name |-> "Nobody"], QuietEnv),
      StatsNoTeam,
      Invoke("get_play_by_play", [game_id |-> "401547417"], QuietEnv),
      Invoke("get_injury_report", EmptyDict, QuietEnv),
      Invoke("get_nfl_news", [limit |-> 15],
             [QuietEnv EXCEPT !.primary = InjuryNews]),
      Invoke("get_nfl_news", EmptyDict, QuietEnv),
      AnalyzeKelce,
      Invoke("analyze_player_routes_plays",
             [player_name |-> "Patrick Mahomes", position |-> "QB"], QuietEnv),
      Invoke("analyze_player_routes_plays",
             [player_name |-> "Derrick Henry", position |-> "RB"], QuietEnv),
      Invoke("analyze_player_routes_plays",
             [player_name |-> "Travis Kelce"], QuietEnv),
      Invoke("generate_route_play_diagrams",
             [route_or_play_names |-> <<"Slant">>, diagram_type |-> "route"],
             QuietEnv),
      Invoke("search_play_highlights", [query |-> "Kelce"],
             [QuietEnv EXCEPT !.net = "fail"]),
      Invoke("get_fantasy_team", EmptyDict, QuietEnv),
      FetchSharks,
      Invoke("get_fantasy_team", [team_name |-> "Nobody"],
             [QuietEnv EXCEPT !.league = "timed out"]),
      UnknownTool }

\* Responses with stop reason tool_use for call number k: one tool-use block,
\* alone or after a text block, or two tool-use blocks in one response.
ToolUseResponses(k) ==
    { ToolResponse(k, inv) : inv \in ChatInvocations }
    \cup
    { [stop_reason |-> "tool_use",
       content |-> << Text(<<"let me check">>),
                      ToolUse(10 * k + 1, pair[1].name, pair[1].input),
                      ToolUse(10 * k + 2, pair[2].name, pair[2].input) >>,
       env |-> QuietEnv] :
      pair \in { <<Invoke("get_live_scores", EmptyDict, QuietEnv),
                   Invoke("get_team_stats", [team_name |-> "Chiefs"], QuietEnv)>>,
                 <<UnknownTool, AnalyzeKelce>> } }

\* Responses with another stop reason.
FinalResponses ==
    { EndTurn,
      [stop_reason |-> "end_turn",
       content |-> << Text(<<"the">>), Text(<<"answer">>) >>, env |-> QuietEnv],
      [stop_reason |-> "max_tokens", content |-> <<>>, env |-> QuietEnv] }

ChatCall ==
    /\ call.pc = "none"
    /\ \E user_message \in Messages \ {<<>>},
          fantasy_context \in {DefaultFantasyContext, StoredCredentials} :
       \E priming \in {<<>>, TeamSelectionPrimer(user_message)} :
          LET conversation_history ==
                  Append(priming, [role |-> "user", content |-> user_message])
          IN  call' = [pc |-> "calling",
                       conversation_history |-> conversation_history,
                       tool_usage_data |-> InitialToolUsage,
                       fantasy_context |-> fantasy_context,
                       calls |-> <<conversation_history>>,
                       dispatched |-> <<>>,
                       results |-> <<>>,
                       asked |-> None,
                       error |-> None,
                       iterations |-> 0]
    /\ UNCHANGED <<conversations, now, turns, last, since_analysis, rendering>>

\* The model asks for a tool: the loop body runs and the next call is made.
ModelRequestsTool ==
    /\ call.pc = "calling"
    /\ call.iterations < MaxIter
    /\ \E response \in ToolUseResponses(call.iterations + 1) :
          LET body == LoopBody(response, call.conversation_history,
                               call.tool_usage_data, call.fantasy_context)
          IN  call' =
                IF body.raised
                THEN [call EXCEPT !.pc = "raised",
                                  !.error = body.error,
                                  !.asked = ToolUseBlocks(response.content)[1].name]
                ELSE [call EXCEPT
                        !.conversation_history = body.conversation_history,
                        !.tool_usage_data = body.tool_usage_data,
                        !.calls = Append(@, body.conversation_history),
                        !.dispatched = Append(@, body.tool_name),
                        !.results = Append(@, body.tool_result),
                        !.iterations = @ + 1]
    /\ UNCHANGED <<conversations, now, turns, last, since_analysis, rendering>>

\* The model answers without asking for a tool: chat returns.
ModelAnswers ==
    /\ call.pc = "calling"
    /\ \E response \in FinalResponses :
          call' = [call EXCEPT
                     !.pc = "returned",
                     !.conversation_history =
                         Append(@, [role |-> "assistant",
                                    content |-> FinalText(response.content)])]
    /\ UNCHANGED <<conversations, now, turns, last, since_analysis, rendering>>

\* messages.create raises: the exception leaves chat.
ModelFails ==
    /\ call.pc = "calling"
    /\ call' = [call EXCEPT !.pc = "raised", !.error = "APIError"]
    /\ UNCHANGED <<conversations, now, turns, last, since_analysis, rendering>>

NextChat == ChatCall \/ ModelRequestsTool \/ ModelAnswers \/ ModelFails

SpecChat == Init /\ [][NextChat]_vars

---------------------------------------------------------------------------
(* One tool call: the invocation the model emits and the state of the      *)
(* outside world are drawn at the start, the dispatch chain of chat        *)
(* applies the handler to them.                                            *)

\* A feed of n entries titled tag1, tag2, ...
NewsFeed(n, tag) ==
    [raises |-> FALSE,
     entries |-> [i \in 1..n |->
                    [title |-> tag \o ToString(i), players |-> {},
                     injury |-> FALSE]]]

\* How far below zero and above the cap of the dispatch the tried limits go.
LimitSpread == 2

NewsLimits == (0 - LimitSpread)..(MaxNewsLimit + LimitSpread)

\* Feeds that are empty, shorter than the default limit, and longer than the cap.
FeedLengths == {0, 2, 5, MaxNewsLimit + 1}

ToolCall(name, input, fantasy_context, env) ==
    [pc |-> "requested", block |-> ToolUse(1, name, input),
     fantasy_context |-> fantasy_context, env |-> env, outcome |-> NoneDict,
     passed |-> NoneDict]

NewsCalls ==
    { ToolCall("get_nfl_news", input, EmptyDict,
               [QuietEnv EXCEPT !.primary = NewsFeed(p, "p"),
                                !.secondary = NewsFeed(s, "s")]) :
        input \in {EmptyDict} \cup {[limit |-> l] : l \in NewsLimits},
        p \in FeedLengths, s \in FeedLengths }

\* The fantasy_context of a user whose roster has been fetched before.
StoredTeam ==
    [my_team |-> <<>>, interested_players |-> <<>>, trade_history |-> <<>>,
     espn_league_id |-> "123456", espn_s2 |-> "AEBstored", espn_swid |-> "{STORED}",
     espn_team_name |-> "Sharks", awaiting_team_selection |-> FALSE]

\* What the League constructor does: it returns, or raises with this text.
LeagueOutcomes ==
    {"ok", "league not found", "401", "timed out", "429", "connection reset"}

FantasyTeamCalls ==
    { ToolCall("get_fantasy_team", input, fantasy_context,
               [QuietEnv EXCEPT !.league = outcome]) :
        input \in { EmptyDict,
                    [league_id |-> "123456"],
                    [league_id |-> "123456", team_name |-> "Sharks"],
                    [league_id |-> "123456", team_name |-> "Jets"],
                    [league_id |-> "123456", team_name |-> ""],
                    [league_id |-> "123456", espn_s2 |-> "AEBs2cookie",
                     swid |-> "{SWID}"],
                    [league_id |-> "123456", espn_s2 |-> "AEBs2cookie",
                     swid |-> "{SWID}", team_name |-> "Sharks"] },
        fantasy_context \in {EmptyDict, StoredCredentials, StoredTeam},
        outcome \in LeagueOutcomes }

AnalysisPositions == {"WR", "te", "TIGHT END", "QB", "QUARTERBACK", "RB"}

AnalysisCalls ==
    { ToolCall("analyze_player_routes_plays", input, EmptyDict, QuietEnv) :
        input \in {[player_name |-> "Travis Kelce", position |-> position] :
                     position \in AnalysisPositions}
                  \cup {[player_name |-> "Travis Kelce", position |-> position,
                         num_results |-> n] :
                          position \in AnalysisPositions,
                          n \in 0..(Len(receiver_routes) + 1)} }

InitTools ==
    /\ conversations = <<>>
    /\ now = 0
    /\ turns = 0
    /\ last = [op |-> "none"]
    /\ since_analysis = -1
    /\ call \in NewsCalls \cup FantasyTeamCalls \cup AnalysisCalls
    /\ static_diagrams = EmptyDict
    /\ pyplot = [objects |-> <<>>, managed |-> <<>>]
    /\ workers = [w \in RequestThreads |-> IdleThread]

\* The branch of the dispatch chain for the tool `name`.
DispatchTool(name) ==
    /\ call.pc = "requested"
    /\ call.block.name = name
    /\ call' = [call EXCEPT
                  !.pc = "returned",
                  !.outcome = Dispatch(call.block, call.fantasy_context, call.env),
                  !.passed = IF name = "get_fantasy_team"
                             THEN FantasyArguments(call.block.input,
                                                   call.fantasy_context)
                             ELSE NoneDict]
    /\ UNCHANGED <<conversations, now, turns, last, since_analysis, rendering>>

NewsCall == DispatchTool("get_nfl_news")

FantasyTeamCall == DispatchTool("get_fantasy_team")

AnalysisCall == DispatchTool("analyze_player_routes_plays")

NextTools == NewsCall \/ FantasyTeamCall \/ AnalysisCall

SpecTools == InitTools /\ [][NextTools]_vars

---------------------------------------------------------------------------
(* generate_route_play_diagrams statement by statement, in the request     *)
(* threads of the server: they share the static/diagrams directory and the *)
(* figure registry of matplotlib.pyplot.                                   *)

\* What the model asks diagrams for.
DiagramCalls ==
    { [names |-> <<"Slant">>, diagram_type |-> "route"],
      [names |-> <<"Slant", "Post">>, diagram_type |-> "route"],
      [names |-> <<"Slant">>, diagram_type |-> "play"] }

\* What a figure shows: nothing yet, or the diagram drawn on its axes.
Blank == [diagram_type |-> "none", name |-> "blank"]

Drawing(diagram_type, name) == [diagram_type |-> diagram_type, name |-> name]

\* plt.gcf(): the figure pyplot activated last; it makes a blank one when it
\* manages none.
WithCurrentFigure(plt) ==
    IF plt.managed # <<>> THEN plt
    ELSE [objects |-> Append(plt.objects, Blank),
          managed |-> <<Len(plt.objects) + 1>>]

CurrentFigure(plt) == plt.managed[Len(plt.managed)]

Thread(w) == workers[w]

CurrentName(w) == Thread(w).names[Thread(w).i]

CurrentFile(w) == DiagramFile(Thread(w).diagram_type, CurrentName(w))

RECURSIVE SumOfCalls(_)
SumOfCalls(threads) ==
    IF threads = {} THEN 0
    ELSE LET w == CHOOSE t \in threads : TRUE
         IN  workers[w].calls + SumOfCalls(threads \ {w})

CallsMade == SumOfCalls(RequestThreads)

\* The loop goes on to the next name with this entry appended.
NextName(w, entry) ==
    [workers EXCEPT ![w] = [@ EXCEPT !.pc = "check", !.i = @ + 1, !.fig = 0,
                                     !.diagrams = Append(@, entry)]]

StartDiagrams(w) ==
    /\ Thread(w).pc = "idle"
    /\ CallsMade < MaxDiagramCalls
    /\ \E c \in DiagramCalls :
          workers' = [workers EXCEPT ![w] =
                        [@ EXCEPT !.pc = "check", !.names = c.names,
                                  !.diagram_type = c.diagram_type, !.i = 1,
                                  !.diagrams = <<>>, !.calls = @ + 1]]
    /\ UNCHANGED <<static_diagrams, pyplot, chat_state>>

\* if os.path.exists(filepath): append the URL and continue
CheckDiagram(w) ==
    /\ Thread(w).pc = "check"
    /\ Thread(w).i <= Len(Thread(w).names)
    /\ workers' =
          IF DiagramExists(CurrentFile(w), static_diagrams)
          THEN NextName(w, [name |-> CurrentName(w),
                            url |-> DiagramUrl(CurrentFile(w)),
                            success |-> TRUE])
          ELSE [workers EXCEPT ![w] = [@ EXCEPT !.pc = "subplots"]]
    /\ UNCHANGED <<static_diagrams, pyplot, chat_state>>

\* fig, ax = plt.subplots(...): a new figure, registered and made current
Subplots(w) ==
    /\ Thread(w).pc = "subplots"
    /\ pyplot' = [objects |-> Append(pyplot.objects, Blank),
                  managed |-> Append(pyplot.managed, Len(pyplot.objects) + 1)]
    /\ workers' = [workers EXCEPT ![w] =
                     [@ EXCEPT !.pc = "draw", !.fig = Len(pyplot.objects) + 1]]
    /\ UNCHANGED <<static_diagrams, chat_state>>

\* the ax.plot / ax.add_patch / ax.text calls: they draw on the thread's axes
Draw(w) ==
    /\ Thread(w).pc = "draw"
    /\ pyplot' = [pyplot EXCEPT !.objects[Thread(w).fig] =
                     Drawing(Thread(w).diagram_type, CurrentName(w))]
    /\ workers' = [workers EXCEPT ![w] = [@ EXCEPT !.pc = "savefig"]]
    /\ UNCHANGED <<static_diagrams, chat_state>>

\* plt.tight_layout(); plt.savefig(filepath, ...): pyplot's current figure is
\* written to the thread's file
SaveFig(w) ==
    /\ Thread(w).pc = "savefig"
    /\ pyplot' = WithCurrentFigure(pyplot)
    /\ static_diagrams' =
          Put(static_diagrams, CurrentFile(w),
              pyplot'.objects[CurrentFigure(pyplot')])
    /\ workers' = [workers EXCEPT ![w] = [@ EXCEPT !.pc = "close"]]
    /\ UNCHANGED chat_state

\* plt.close(fig) and the entry of the rendered diagram
CloseFig(w) ==
    /\ Thread(w).pc = "close"
    /\ pyplot' = [pyplot EXCEPT !.managed =
                     SelectSeq(@, LAMBDA f : f # Thread(w).fig)]
    /\ workers' = NextName(w, [name |-> CurrentName(w),
                               url |-> DiagramUrl(CurrentFile(w)),
                               success |-> TRUE])
    /\ UNCHANGED <<static_diagrams, chat_state>>

\* except Exception as draw_error: a pyplot call of the thread raised before
\* the file was written; plt.close('all') drops every registered figure.
DrawError(w) ==
    /\ Thread(w).pc \in {"subplots", "draw", "savefig"}
    /\ pyplot' = [pyplot EXCEPT !.managed = <<>>]
    /\ workers' = NextName(w, [name |-> CurrentName(w),
                               error |-> "draw_error", success |-> FALSE])
    /\ UNCHANGED <<static_diagrams, chat_state>>

\* return {'success': True, 'diagrams': diagrams, 'count': ...}
ReturnDiagrams(w) ==
    /\ Thread(w).pc = "check"
    /\ Thread(w).i > Len(Thread(w).names)
    /\ workers' = [workers EXCEPT ![w] =
          [@ EXCEPT !.pc = "idle",
                    !.returned = Append(@,
                        [names |-> Thread(w).names,
                         diagram_type |-> Thread(w).diagram_type,
                         result |->
                            [success |-> TRUE,
                             diagrams |-> Thread(w).diagrams,
                             count |-> Len(SelectSeq(Thread(w).diagrams,
                                                     LAMBDA d : d.success))]])]]
    /\ UNCHANGED <<static_diagrams, pyplot, chat_state>>

NextDiagrams ==
    \E w \in RequestThreads :
        \/ StartDiagrams(w)
        \/ CheckDiagram(w)
        \/ Subplots(w)
        \/ Draw(w)
        \/ SaveFig(w)
        \/ CloseFig(w)
        \/ DrawError(w)
        \/ ReturnDiagrams(w)

SpecDiagrams == Init /\ [][NextDiagrams]_vars

---------------------------------------------------------------------------
(* Properties of one call of chat (SpecChat).                              *)

\* Positions of the assistant messages that carry serialized content blocks.
ToolTurns(h) ==
    {i \in 1..Len(h) : h[i].role = "assistant" /\ "blocks" \in DOMAIN h[i]}

\* The tool_result blocks of message m that answer invocation id.
ResultsFor(m, id) ==
    IF "blocks" \in DOMAIN m
    THEN {r \in 1..Len(m.blocks) :
            /\ m.blocks[r].type = "tool_result"
            /\ m.blocks[r].tool_use_id = id}
    ELSE {}

\* C1: while chat runs and when it has returned, the log holds exactly one
\* (assistant, user) pair per tool-use iteration, and every tool_use block of
\* an appended assistant message has exactly one tool_result block with the
\* same id in the message that follows it.
C1_EveryToolUsePaired ==
    call.pc \in {"calling", "returned"} =>
        LET h == call.conversation_history
            final == IF call.pc = "returned" THEN 1 ELSE 0
        IN  /\ Len(h) - Len(call.calls[1]) - final = 2 * call.iterations
            /\ Cardinality(ToolTurns(h)) = call.iterations
            /\ \A i \in ToolTurns(h) :
                  /\ i < Len(h)
                  /\ h[i + 1].role = "user"
                  /\ \A b \in 1..Len(h[i].blocks) :
                        h[i].blocks[b].type = "tool_use" =>
                            Cardinality(ResultsFor(h[i + 1], h[i].blocks[b].id)) = 1

\* The log holds an assistant message with two tool_use blocks, followed by a
\* user message with a single tool_result, and the model was called on it.
C1_Witness ==
    /\ call.pc = "calling"
    /\ \E i \in ToolTurns(call.conversation_history) :
          LET h == call.conversation_history
          IN  /\ Len(SelectSeq(h[i].blocks, LAMBDA b : b.type = "tool_use")) = 2
              /\ i < Len(h)
              /\ Len(h[i + 1].blocks) = 1
              /\ h[i + 1].blocks[1].tool_use_id = h[i].blocks[2].id
              /\ ResultsFor(h[i + 1], h[i].blocks[3].id) = {}
              /\ call.calls[Len(call.calls)] = SubSeq(h, 1, i + 1)

\* The first tool_use block of the assistant message at position i.
FirstToolUse(h, i) ==
    SelectSeq(h[i].blocks, LAMBDA b : b.type = "tool_use")[1]

\* Positions of the log where the tool the model asked for is not declared.
UnknownToolTurns(h) ==
    {i \in ToolTurns(h) : FirstToolUse(h, i).name \notin DOMAIN tools}

\* C2: a request for a tool that is not declared never makes chat raise; the
\* log gets a tool result carrying an error under the invocation's id, the
\* model is called again with that log, and when the model then answers
\* chat returns that answer as the last message of the log.
C2_UnknownToolContinues ==
    /\ [](\A i \in UnknownToolTurns(call.conversation_history) :
            LET h == call.conversation_history
            IN  /\ i < Len(h)
                /\ h[i + 1] =
                      [role |-> "user",
                       blocks |-> << [type |-> "tool_result",
                                      tool_use_id |-> FirstToolUse(h, i).id,
                                      content |-> [error |-> "Unknown tool"]] >>]
                /\ \E k \in 1..Len(call.calls) :
                      call.calls[k] = SubSeq(h, 1, i + 1))
    /\ [][/\ call'.pc = "raised" /\ call.pc = "calling" =>
               call'.asked = None \/ call'.asked \in DOMAIN tools
          /\ call'.pc = "returned" /\ call.pc = "calling" =>
               LET h == call'.conversation_history
               IN  /\ h[Len(h)].role = "assistant"
                   /\ "content" \in DOMAIN h[Len(h)]
                   /\ SubSeq(h, 1, Len(h) - 1) = call.conversation_history]_vars

\* chat has returned an answer after an undeclared tool was asked for.
C2_Witness ==
    /\ call.pc = "returned"
    /\ UnknownToolTurns(call.conversation_history) # {}
    /\ \E k \in 1..Len(call.dispatched) : call.dispatched[k] = "get_weather"

\* The contents of the tool_result blocks of the log.
SerializedResults(h) ==
    {h[i].blocks[r].content :
        i \in {j \in 1..Len(h) : "blocks" \in DOMAIN h[j] /\ h[j].role = "user"},
        r \in 1..1}

\* C8: every tool result serialized into a tool_result block has a boolean
\* success field, and the result for an undeclared tool has success false.
C8_ResultsHaveSuccess ==
    /\ \A result \in SerializedResults(call.conversation_history) :
          /\ "success" \in DOMAIN result
          /\ result.success \in BOOLEAN
    /\ \A i \in UnknownToolTurns(call.conversation_history) :
          LET content == call.conversation_history[i + 1].blocks[1].content
          IN  "success" \in DOMAIN content /\ content.success = FALSE

---------------------------------------------------------------------------
(* Properties of the /chat and /reset requests of one user (Spec).         *)

\* The user's row as the request that is being handled finds it.
Before == get_or_create_conversation(conversations)[1]

\* A step that handles a /chat request with a non-empty message.
ChatTurn == turns' = turns + 1 /\ last'.user_message # <<>>

\* The primers of a priming sequence: the first token of each context message.
PrimerHeaders(priming) ==
    [k \in 1..(Len(priming) \div 2) |-> priming[2 * k - 1].content[1]]

HasAnalysisPrimer(priming) == InList(AnalysisHeader, PrimerHeaders(priming))

\* C3: whenever the preprocessing hands a log to chat, it has injected at
\* most one primer, the one the precedence chooses: team selection when the
\* row awaits it, else the analysis primer for a short affirmative with a
\* stored analysis context, else the fantasy primer for a fantasy keyword
\* with a non-empty fantasy context, else none.
C3_OnePrimerByPrecedence ==
    [][ChatTurn /\ last'.calls # <<>> =>
          LET m == last'.user_message
              fantasy_context == Before.fantasy_context
              recent == Before.recent_analysis_context
          IN  /\ Len(last'.priming) <= 2
              /\ last'.priming =
                    IF Get(fantasy_context, "awaiting_team_selection", FALSE)
                    THEN TeamSelectionPrimer(m)
                    ELSE IF is_affirmative(m) /\ recent # EmptyDict
                    THEN AnalysisPrimer(recent, m)
                    ELSE IF is_fantasy_question(m) /\ has_context(fantasy_context)
                    THEN FantasyPrimer(fantasy_context)
                    ELSE <<>>]_vars

\* Two primers were handed to chat: the analysis primer and, after it, the
\* team-selection primer of a row that awaits the team selection.
C3_Witness ==
    /\ last.op = "chat"
    /\ last.calls # <<>>
    /\ PrimerHeaders(last.priming) = <<AnalysisHeader, TeamSelectionHeader>>

\* C4: a reset leaves the row with an empty history and with the
\* fantasy_context, recent_analysis_context and last_injury_check it had.
C4_ResetOnlyClearsHistory ==
    [][turns' = turns /\ last'.op = "reset" =>
          /\ Len(conversations') >= 1
          /\ conversations'[1].history = <<>>
          /\ conversations'[1].fantasy_context = Before.fantasy_context
          /\ conversations'[1].recent_analysis_context =
                Before.recent_analysis_context
          /\ conversations'[1].last_injury_check = Before.last_injury_check]_vars

\* A reset has been handled on a row that holds players, an analysis context
\* and an injury-check timestamp.
C4_Witness ==
    /\ last.op = "reset"
    /\ conversations[1].history = <<>>
    /\ conversations[1].fantasy_context["my_team"] # <<>>
    /\ conversations[1].recent_analysis_context # EmptyDict
    /\ conversations[1].last_injury_check # <<>>

C6_PrimerOnNextTurnOnly ==
    [][ChatTurn /\ since_analysis >= 1 /\ is_affirmative(last'.user_message) =>
          ~HasAnalysisPrimer(last'.priming)]_vars

\* Two turns or more after the turn that stored the analysis, with no use of
\* the analytics tool since, a short affirmative message got the analysis
\* primer (and the turn cleared the context).
C6_Witness ==
    /\ since_analysis >= 2
    /\ last.op = "chat"
    /\ last.status = 200
    /\ is_affirmative(last.user_message)
    /\ HasAnalysisPrimer(last.priming)
    /\ conversations[1].recent_analysis_context = EmptyDict

\* The stored analysis is a successful routes analysis that names routes.
HoldsRoutes(recent) ==
    LET analysis_data == Get(recent, "analysis_data", EmptyDict)
        result == Get(analysis_data, "result", EmptyDict)
    IN  /\ TruthyDict(analysis_data)
        /\ Get(result, "success", FALSE)
        /\ Get(result, "top_routes", <<>>) # <<>>

\* C7: when a short affirmative message arrives and the stored analysis is a
\* successful routes analysis naming routes R, the log of the first model
\* call starts with the analysis primer: its context message names the
\* player and, as the routes shown, exactly the names of R in order; the
\* user's message comes after it, as the last message of the log.
C7_PrimerNamesRoutes ==
    [][(/\ ChatTurn /\ last'.calls # <<>>
        /\ is_affirmative(last'.user_message)
        /\ HoldsRoutes(Before.recent_analysis_context)) =>
          LET analysis_data == Before.recent_analysis_context["analysis_data"]
              R == analysis_data.result.top_routes
              log == last'.calls[1]
              c == log[1].content
          IN  /\ Len(log) >= 3
              /\ log[1].role = "user"
              /\ log[2].role = "assistant"
              /\ c[1] = AnalysisHeader
              /\ c[2] = analysis_data.player_name
              /\ \E i, j \in 1..Len(c) :
                    /\ c[i] = RoutesShown
                    /\ c[j] = AnalysisTypeLabel
                    /\ SubSeq(c, i + 2, j - 1) =
                          [k \in 1..Len(R) |-> R[k].route_name]
              /\ log[Len(log)] =
                    [role |-> "user", content |-> last'.user_message]]_vars

\* A short affirmative reply to a stored analysis of Travis Kelce's routes
\* reached the model behind the primer.
C7_Witness ==
    /\ last.op = "chat"
    /\ last.user_message = <<"yes">>
    /\ last.calls # <<>>
    /\ HasAnalysisPrimer(last.priming)
    /\ InList("Travis Kelce", last.calls[1][1].content)
    /\ InList("Hitch", last.calls[1][1].content)

\* The tool result of an undeclared tool is in the log, without a success
\* field, and the model was called on that log.
C8_Witness ==
    /\ call.pc = "calling"
    /\ \E i \in UnknownToolTurns(call.conversation_history) :
          LET h == call.conversation_history
          IN  /\ i < Len(h)
              /\ "success" \notin DOMAIN h[i + 1].blocks[1].content
              /\ call.calls[Len(call.calls)] = SubSeq(h, 1, i + 1)

\* C9: a /chat request with a non-empty message in which every model call
\* that is made succeeds is answered with status 200, success true and a
\* non-empty response text.
C9_AlwaysAnswers ==
    (/\ last.op = "chat"
     /\ last.user_message # <<>>
     /\ \A k \in 1..Len(last.calls) : last.script[k].stop_reason # "error") =>
        /\ last.status = 200
        /\ last.body.success
        /\ last.body.response # <<>>

\* A request whose only model call succeeded was answered with status 500:
\* the model asked for get_team_stats without team_name.
C9_Witness ==
    /\ last.op = "chat"
    /\ last.user_message # <<>>
    /\ Len(last.calls) = 1
    /\ last.script[1].stop_reason = "tool_use"
    /\ last.status = 500
    /\ last.body = [error |-> "KeyError", success |-> FALSE]

\* C10: when a model call of chat fails, the request is answered with status
\* 500 and success false, the failing call is the last model call of the
\* request (no retry, no later call of chat, no extraction call), and
\* nothing of the turn is stored.
C10_ModelFailurePropagates ==
    [][(/\ ChatTurn
        /\ \E i \in 1..Len(last'.calls) :
              last'.script[i].stop_reason = "error") =>
          /\ last'.status = 500
          /\ last'.body = [error |-> "APIError", success |-> FALSE]
          /\ last'.script[Len(last'.calls)].stop_reason = "error"
          /\ \A k \in 1..(Len(last'.calls) - 1) :
                last'.script[k].stop_reason # "error"
          /\ ~last'.extraction
          /\ conversations'[1].history = Before.history
          /\ conversations'[1].recent_analysis_context =
                Before.recent_analysis_context]_vars

\* The second model call of a request failed, after a tool had run.
C10_Witness ==
    /\ last.op = "chat"
    /\ last.status = 500
    /\ Len(last.calls) = 2
    /\ last.dispatched = <<"analyze_player_routes_plays">>
    /\ last.script[2].stop_reason = "error"

---------------------------------------------------------------------------
(* The fantasy roster and the team-selection flag.                         *)

\* What chat recorded of the turn's last get_fantasy_team call, when the
\* turn got as far as storing it.
FetchedTeam(r) ==
    IF r.op = "chat" /\ r.status = 200
       /\ Get(r.tool_usage, "used_get_fantasy_team", FALSE)
    THEN Get(r.tool_usage, "fantasy_team_data", EmptyDict)
    ELSE EmptyDict

FullRoster(r) ==
    /\ Get(FetchedTeam(r), "success", FALSE)
    /\ ~Get(FetchedTeam(r), "needs_team_selection", FALSE)

TeamList(r) == Get(FetchedTeam(r), "needs_team_selection", FALSE)

HasTeamSelectionPrimer(priming) ==
    InList(TeamSelectionHeader, PrimerHeaders(priming))

Awaiting(rows) ==
    Get(get_or_create_conversation(rows)[1].fantasy_context,
        "awaiting_team_selection", FALSE)

\* C11: after a turn whose recorded roster result is a successful full
\* roster the awaiting_team_selection flag is false, after a turn whose
\* recorded result is a team list (needs_team_selection) it is true, and a
\* turn gets the team-selection primer exactly when the flag was true when
\* the turn began.
C11_AwaitingFlagFollowsRoster ==
    [][ChatTurn =>
        /\ FullRoster(last') => ~Awaiting(conversations')
        /\ TeamList(last') => Awaiting(conversations')
        /\ HasTeamSelectionPrimer(last'.priming) <=> Awaiting(conversations)
      ]_vars

\* A turn that began with the flag set got the primer, fetched the full
\* roster and left the flag cleared.
C11_Witness ==
    /\ last.op = "chat"
    /\ HasTeamSelectionPrimer(last.priming)
    /\ FullRoster(last)
    /\ ~Awaiting(conversations)
    /\ Get(conversations[1].fantasy_context, "espn_roster", <<>>) # <<>>

\* Two dicts with the same keys and the same value under each key.
SameDict(a, b) == DOMAIN a = DOMAIN b /\ \A k \in DOMAIN a : a[k] = b[k]

\* C12: after a turn whose recorded roster result is a successful full
\* roster, the roster, the current matchup, the standings and the team name
\* stored in the row's fantasy_context are those of the handler's result.
C12_StoredTeamEqualsResult ==
    [][(ChatTurn /\ FullRoster(last')) =>
        LET stored == conversations'[1].fantasy_context
            result == FetchedTeam(last')
        IN  /\ Get(stored, "espn_roster", None) = result["roster"]
            /\ SameDict(Get(stored, "espn_matchup", EmptyDict),
                        result["current_matchup"])
            /\ Get(stored, "espn_standings", None) = result["standings"]
            /\ Get(stored, "espn_team_name", None) = result["team_name"]
      ]_vars

\* A full roster whose result carries this week's matchup has been stored.
C12_Witness ==
    /\ FullRoster(last)
    /\ "week" \in DOMAIN FetchedTeam(last)["current_matchup"]
    /\ Get(conversations[1].fantasy_context, "espn_roster", <<>>)
          = FetchedTeam(last)["roster"]

---------------------------------------------------------------------------
(* The extraction step (SpecFantasy).                                      *)

ManualLists == {"my_team", "interested_players", "trade_history"}

\* The extraction call was made and gave nothing to merge, or the merge
\* raised.
ExtractionFailed(r) ==
    /\ r.op = "chat"
    /\ \/ r.extract.kind \in {"raise", "prose", "badjson"}
       \/ r.extract.kind = "json" /\ MergeRaises(r.extract.data)

\* C13: when the extraction call raises, or its output holds no parseable
\* JSON object, or the merge fails, the turn still answers with success and
\* the answer text chat returned, and my_team, interested_players and
\* trade_history are what they were before the turn.
C13_ExtractionFailureIsolated ==
    [][(ChatTurn /\ ExtractionFailed(last')) =>
        /\ last'.status = 200
        /\ last'.body.success
        /\ last'.body.response
              = last'.injury_update_message \o last'.log[Len(last'.log)].content
        /\ \A k \in ManualLists :
              conversations'[1].fantasy_context[k] = Before.fantasy_context[k]
      ]_vars

\* A merge that raised after its my_team loop: the turn answered, the league
\* id of the message is stored and the player of the delta is not.
C13_Witness ==
    /\ ExtractionFailed(last)
    /\ last.extract.kind = "json"
    /\ last.status = 200
    /\ Get(last.extract.data, "my_team", <<>>) = <<"Josh Allen">>
    /\ ~InList("Josh Allen", conversations[1].fantasy_context["my_team"])
    /\ Get(conversations[1].fantasy_context, "espn_league_id", None) = "123456"

NoDuplicates(seq) == \A i, j \in 1..Len(seq) : seq[i] = seq[j] => i = j

IsPrefix(a, b) == Len(a) <= Len(b) /\ SubSeq(b, 1, Len(a)) = a

MergedDelta(r) ==
    /\ r.op = "chat"
    /\ r.extract.kind = "json"
    /\ ~MergeRaises(r.extract.data)

FantasyContextOf(rows) == get_or_create_conversation(rows)[1].fantasy_context

\* C14: starting from the default fantasy_context, after any sequence of
\* turns my_team and interested_players hold no duplicates, no step removes
\* or reorders an entry of the three lists, and every non-empty trade of a
\* merged delta is appended to trade_history, also when an equal entry is
\* already there.
C14_MergeKeepsLists ==
    [][/\ NoDuplicates(FantasyContextOf(conversations')["my_team"])
       /\ NoDuplicates(FantasyContextOf(conversations')["interested_players"])
       /\ \A k \in ManualLists :
             IsPrefix(FantasyContextOf(conversations)[k],
                      FantasyContextOf(conversations')[k])
       /\ (ChatTurn /\ MergedDelta(last')) =>
             FantasyContextOf(conversations')["trade_history"]
               = FantasyContextOf(conversations)["trade_history"]
                 \o SelectSeq(Get(last'.extract.data, "trade_history", <<>>),
                              LAMBDA trade : trade # "")
      ]_vars

\* Two turns merged deltas that repeat a player and a trade: the player is
\* stored once, after the player stored first, and the trade three times.
C14_Witness ==
    /\ MergedDelta(last)
    /\ conversations[1].fantasy_context["my_team"]
          = <<"Travis Kelce", "Josh Allen">>
    /\ conversations[1].fantasy_context["trade_history"]
          = <<"Kelce for Allen", "Kelce for Allen", "Kelce for Allen">>

---------------------------------------------------------------------------
(* Properties of single tool calls (SpecTools).                            *)

ReturnedFrom(name) ==
    /\ call.pc = "returned"
    /\ call.block.name = name
    /\ ~call.outcome.raised

ToolResultOf == call.outcome.tool_result

\* The message the handler has for each class of failure.
LeagueFailureMessage(failure) ==
    CASE failure = "league not found" ->
            "League not found. Double-check your ESPN_LEAGUE_ID."
      [] failure = "401" ->
            "Authentication failed. Your ESPN_S2 or ESPN_SWID cookies may be expired."
      [] failure = "timed out" ->
            "ESPN API request timed out. Try again in a moment."
      [] failure = "429" ->
            "ESPN API rate limit reached. Please wait a minute before trying again."
      [] OTHER -> "Could not fetch ESPN Fantasy team."

\* C15: whenever connecting to the league fails in get_fantasy_team, with or
\* without private-league credentials, the result has success false and the
\* message of the failure's own class (not found, unauthorized, timeout,
\* rate limit).
C15_LeagueFailureClassified ==
    (ReturnedFrom("get_fantasy_team") /\ call.env.league # "ok") =>
        /\ ToolResultOf.success = FALSE
        /\ ToolResultOf.message = LeagueFailureMessage(call.env.league)

\* With both cookies supplied a not-found failure is reported as not found.
C15_Witness ==
    /\ ReturnedFrom("get_fantasy_team")
    /\ call.env.league = "league not found"
    /\ "espn_s2" \in DOMAIN call.block.input
    /\ ToolResultOf.success = FALSE
    /\ ToolResultOf.message = LeagueFailureMessage("league not found")

Titles(news) == [i \in 1..Len(news) |-> news[i].title]

FirstOf(seq, n) == SubSeq(seq, 1, IF n < Len(seq) THEN n ELSE Len(seq))

\* C16: for every integer limit the model passes (10 when it passes none) and
\* all feed lengths, the news tool returns at most limit entries and at most
\* 20: the first min(p, limit) entries of the primary feed and, only when
\* those are fewer than the limit, the first entries of the secondary feed
\* in the remaining slots (no entry at all for a limit below 1).
C16_NewsWithinLimit ==
    ReturnedFrom("get_nfl_news") =>
        LET limit == Get(call.block.input, "limit", 10)
            slots == IF limit < 20 THEN limit ELSE 20
            primary == FirstOf(Titles(call.env.primary.entries), slots)
            secondary ==
                IF Len(primary) < slots
                THEN FirstOf(Titles(call.env.secondary.entries),
                             slots - Len(primary))
                ELSE <<>>
        IN  /\ Len(ToolResultOf.news) <= (IF limit > 0 THEN limit ELSE 0)
            /\ Len(ToolResultOf.news) <= 20
            /\ Titles(ToolResultOf.news) = primary \o secondary

\* The primary feed was shorter than the limit and the secondary feed filled
\* the remaining slots, up to the limit.
C16_Witness ==
    /\ ReturnedFrom("get_nfl_news")
    /\ Get(call.block.input, "limit", 10) = 4
    /\ Titles(ToolResultOf.news) = <<"p1", "p2", "s1", "s2">>
    /\ Len(call.env.secondary.entries) > 2

\* success_rate times volume of a table entry: targets for a route, attempts
\* (carries when there are none) for a play.
Product(entry) ==
    entry.success_rate
      * (IF "targets" \in DOMAIN entry THEN entry.targets
         ELSE IF "attempts" \in DOMAIN entry THEN entry.attempts
         ELSE entry.carries)

Named(table, name) == table[CHOOSE i \in 1..Len(table) : table[i].name = name]

\* `names` are n different entries of `table`, none with a smaller product
\* than an entry left out, listed by non-increasing product.
IsTop(names, table, n) ==
    /\ Len(names) = n
    /\ \A i \in 1..n : \E j \in 1..Len(table) : table[j].name = names[i]
    /\ \A i, j \in 1..n : names[i] = names[j] => i = j
    /\ \A i \in 1..(n - 1) :
          Product(Named(table, names[i])) >= Product(Named(table, names[i + 1]))
    /\ \A j \in 1..Len(table) :
          InList(table[j].name, names)
          \/ \A i \in 1..n :
                Product(table[j]) <= Product(Named(table, names[i]))

AnalysedNames ==
    IF "top_routes" \in DOMAIN ToolResultOf
    THEN [i \in 1..Len(ToolResultOf.top_routes) |->
             ToolResultOf.top_routes[i].route_name]
    ELSE [i \in 1..Len(ToolResultOf.top_plays) |->
             ToolResultOf.top_plays[i].play_name]

\* C18: for an accepted position and a result count N in 1..10 (3 when the
\* model passes none) analyze_player_routes_plays returns exactly the N
\* table entries with the highest success_rate x volume, in non-increasing
\* order of that product; by default Hitch, Slant, Crossing for a receiver
\* and Quick Slant Package, Play Action Pass, Empty Set Pass for a
\* quarterback.
C18_TopByProduct ==
    (/\ ReturnedFrom("analyze_player_routes_plays")
     /\ call.block.input["position"] # "RB"
     /\ Get(call.block.input, "num_results", 3) \in 1..10) =>
        LET receiver == call.block.input["position"] \in {"WR", "te", "TIGHT END"}
            n == Get(call.block.input, "num_results", 3)
        IN  /\ ToolResultOf.success
            /\ receiver <=> "top_routes" \in DOMAIN ToolResultOf
            /\ IsTop(AnalysedNames,
                     IF receiver THEN receiver_routes ELSE qb_plays, n)
            /\ "num_results" \notin DOMAIN call.block.input =>
                  AnalysedNames =
                      IF receiver THEN <<"Hitch", "Slant", "Crossing">>
                      ELSE <<"Quick Slant Package", "Play Action Pass",
                             "Empty Set Pass">>

\* A quarterback's ten plays were asked for: the list ends with the play that
\* has carries and no attempts.
C18_Witness ==
    /\ ReturnedFrom("analyze_player_routes_plays")
    /\ call.block.input["position"] = "QUARTERBACK"
    /\ Get(call.block.input, "num_results", 3) = 10
    /\ Len(AnalysedNames) = 10
    /\ AnalysedNames[10] = "Shotgun Draw"

---------------------------------------------------------------------------
(* The working log of a turn (Spec).                                       *)

\* `msgs` is made of primers only: pairs of a user message that begins with
\* one of the three primer headers and an assistant acknowledgement, no
\* header twice.
OnlyPrimers(msgs) ==
    /\ Len(msgs) % 2 = 0
    /\ \A i \in 1..Len(msgs) :
          /\ "content" \in DOMAIN msgs[i]
          /\ msgs[i].role = (IF i % 2 = 1 THEN "user" ELSE "assistant")
          /\ i % 2 = 1 =>
                /\ msgs[i].content # <<>>
                /\ msgs[i].content[1]
                     \in {AnalysisHeader, TeamSelectionHeader, FantasyHeader}
                /\ \A j \in 1..(i - 1) :
                      j % 2 = 1 => msgs[j].content[1] # msgs[i].content[1]

\* `longer` is `shorter` followed by one tool exchange: the assistant's
\* blocks and a user message of tool results.
AddsToolExchange(shorter, longer) ==
    /\ Len(longer) = Len(shorter) + 2
    /\ SubSeq(longer, 1, Len(shorter)) = shorter
    /\ longer[Len(longer) - 1].role = "assistant"
    /\ "blocks" \in DOMAIN longer[Len(longer) - 1]
    /\ longer[Len(longer)].role = "user"
    /\ "blocks" \in DOMAIN longer[Len(longer)]
    /\ \A b \in 1..Len(longer[Len(longer)].blocks) :
          longer[Len(longer)].blocks[b].type = "tool_result"

\* C19: the message list sent to the model holds nothing of earlier turns:
\* the first call of a turn gets this turn's primers and the user's message,
\* every later call the same list with one more tool exchange; and after a
\* successful turn the stored history is exactly that turn's working log
\* (the last list sent plus the final answer), whatever was stored before.
C19_LogStartsFreshEachTurn ==
    [][(ChatTurn /\ last'.calls # <<>>) =>
        LET calls == last'.calls
            first == calls[1]
            sent == calls[Len(calls)]
            log == last'.log
        IN  /\ first[Len(first)]
                 = [role |-> "user", content |-> last'.user_message]
            /\ OnlyPrimers(SubSeq(first, 1, Len(first) - 1))
            /\ \A k \in 2..Len(calls) : AddsToolExchange(calls[k - 1], calls[k])
            /\ last'.status = 200 =>
                  /\ conversations'[1].history = log
                  /\ Len(log) = Len(sent) + 1
                  /\ SubSeq(log, 1, Len(sent)) = sent
                  /\ log[Len(log)].role = "assistant"
                  /\ last'.injury_update_message \o log[Len(log)].content
                       = last'.body.response
      ]_vars

\* The turn after an analysis turn got a primer, used a tool and answered:
\* the stored history is its own log, which starts with the primer.
C19_Witness ==
    /\ since_analysis = 1
    /\ last.op = "chat"
    /\ last.status = 200
    /\ last.priming # <<>>
    /\ Len(last.calls) = 2
    /\ conversations[1].history = last.log
    /\ last.log[1] = last.priming[1]

---------------------------------------------------------------------------
(* Diagram generation (SpecDiagrams).                                      *)

Entries(seq) == {seq[k] : k \in 1..Len(seq)}

\* The URLs handed out so far for the diagram (diagram_type, name), in calls
\* that returned and in calls under way.
UrlsGiven(threads, diagram_type, name) ==
    LET under_way ==
            UNION {Entries(threads[v].diagrams) :
                     v \in {t \in RequestThreads :
                              threads[t].diagram_type = diagram_type}}
        returned ==
            UNION {UNION {Entries(threads[v].returned[k].result.diagrams) :
                            k \in {j \in 1..Len(threads[v].returned) :
                                     threads[v].returned[j].diagram_type
                                       = diagram_type}} :
                     v \in RequestThreads}
    IN  {d.url : d \in {e \in under_way \cup returned :
                          e.success /\ e.name = name}}

\* C17: a call of generate_route_play_diagrams that finds the image an
\* earlier call stored for the same (name, diagram_type) returns the URL
\* that was returned before, and neither renders nor writes an image.
C17_SecondCallReusesArtifact ==
    [][\A w \in RequestThreads :
          (/\ Thread(w).pc = "check"
           /\ Thread(w).i <= Len(Thread(w).names)
           /\ CurrentFile(w) \in DOMAIN static_diagrams
           /\ workers'[w] # workers[w]) =>
              /\ static_diagrams' = static_diagrams
              /\ pyplot' = pyplot
              /\ workers'[w].pc = "check"
              /\ workers'[w].i = Thread(w).i + 1
              /\ workers'[w].diagrams[Len(workers'[w].diagrams)].success
              /\ UrlsGiven(workers', Thread(w).diagram_type, CurrentName(w))
                   = {workers'[w].diagrams[Len(workers'[w].diagrams)].url}
      ]_vars

\* Two calls have returned the Slant route with its URL and one figure was
\* ever made.
C17_Witness ==
    /\ \A w \in RequestThreads :
          /\ Len(Thread(w).returned) = 1
          /\ Thread(w).returned[1].diagram_type = "route"
          /\ Thread(w).returned[1].names = <<"Slant">>
          /\ Thread(w).returned[1].result.count = 1
    /\ Len(pyplot.objects) = 1
    /\ UrlsGiven(workers, "route", "Slant")
         = {DiagramUrl(DiagramFile("route", "Slant"))}

\* C20: requests handled at the same time share nothing but their
\* conversation rows: the image a request stores for a (name, diagram_type)
\* is the diagram of that name and type, whatever diagram generation runs
\* in another request meanwhile.
C20_StoredDiagramIsOwn ==
    \A c \in DiagramCalls : \A k \in 1..Len(c.names) :
        DiagramFile(c.diagram_type, c.names[k]) \in DOMAIN static_diagrams =>
            static_diagrams[DiagramFile(c.diagram_type, c.names[k])]
              = Drawing(c.diagram_type, c.names[k])

\* Two requests are between plt.subplots and plt.savefig at the same time.
C20_Witness ==
    \A w \in RequestThreads : Thread(w).pc \in {"draw", "savefig"}

---------------------------------------------------------------------------
(* Requests of one user served by the threads of the server, step by step  *)
(* (SpecRequests): the query of get_or_create_conversation, its insert and *)
(* commit, and the rest of the handler on the row the thread holds.        *)
(* `conversations` is the user's rows in the conversations table, in id    *)
(* order; the table has no unique constraint on user_id.                   *)

MaxRequests == 3

\* A thread between requests; `held` lists the row each request worked on.
IdleRequestThread ==
    [pc |-> "idle", op |-> "none", user_message |-> <<>>, row |-> 0,
     calls |-> 0, held |-> <<>>]

RequestMessages == { <<>>, <<"who", "won">>, <<"yes">> }

RequestScripts == { <<EndTurn>>, <<ApiError>> }

InitRequests ==
    /\ conversations = <<>>
    /\ now = 0
    /\ turns = 0
    /\ last = [op |-> "none"]
    /\ since_analysis = -1
    /\ call = NoCall
    /\ static_diagrams = EmptyDict
    /\ pyplot = [objects |-> <<>>, managed |-> <<>>]
    /\ workers = [w \in RequestThreads |-> IdleRequestThread]

\* A /chat request without a message is answered 400 before any query.
BadRequest(w) ==
    /\ Thread(w).pc = "idle"
    /\ CallsMade < MaxRequests
    /\ workers' = [workers EXCEPT ![w] = [@ EXCEPT !.calls = @ + 1]]
    /\ last' = [op |-> "chat", status |-> 400,
                body |-> [error |-> "No message provided"]]
    /\ UNCHANGED <<conversations, now, turns, since_analysis, call, static_diagrams, pyplot>>

\* Conversation.query.filter_by(user_id=user_id).first()
QueryConversation(w) ==
    /\ Thread(w).pc = "idle"
    /\ CallsMade < MaxRequests
    /\ \E op \in {"chat", "reset"} :
       \E user_message \in (IF op = "chat" THEN RequestMessages \ {<<>>}
                            ELSE {<<>>}) :
          workers' = [workers EXCEPT ![w] =
                        [@ EXCEPT !.pc = IF conversations = <<>>
                                         THEN "create" ELSE "handle",
                                  !.op = op,
                                  !.user_message = user_message,
                                  !.row = IF conversations = <<>> THEN 0 ELSE 1,
                                  !.calls = @ + 1]]
    /\ UNCHANGED <<conversations, static_diagrams, pyplot, chat_state>>

\* if not conversation: db.session.add(Conversation(...)); db.session.commit()
CreateConversation(w) ==
    /\ Thread(w).pc = "create"
    /\ conversations' = Append(conversations, NewConversation)
    /\ workers' = [workers EXCEPT ![w] =
                     [@ EXCEPT !.pc = "handle",
                               !.row = Len(conversations) + 1]]
    /\ UNCHANGED <<now, turns, last, since_analysis, call, static_diagrams, pyplot>>

\* The rest of the handler, on the row the thread got.
HandleOnRow(w) ==
    /\ Thread(w).pc = "handle"
    /\ \E script \in RequestScripts :
       \E r \in (IF Thread(w).op = "reset"
                 THEN {[rows |-> HandleReset(<<conversations[Thread(w).row]>>),
                        op |-> "reset", status |-> 200]}
                 ELSE {HandleChat(<<conversations[Thread(w).row]>>,
                                  Thread(w).user_message, now, script,
                                  QuietEnv, [kind |-> "prose"])}) :
          /\ conversations' = [conversations EXCEPT ![Thread(w).row] = r.rows[1]]
          /\ last' = [op |-> r.op, status |-> r.status]
    /\ workers' = [workers EXCEPT ![w] =
                     [@ EXCEPT !.pc = "idle",
                               !.held = Append(@, Thread(w).row)]]
    /\ UNCHANGED <<now, turns, since_analysis, call, static_diagrams, pyplot>>

NextRequests ==
    \E w \in RequestThreads :
        \/ BadRequest(w)
        \/ QueryConversation(w)
        \/ CreateConversation(w)
        \/ HandleOnRow(w)

SpecRequests == InitRequests /\ [][NextRequests]_vars

\* C21: at most one Conversation row exists per user, and every request of
\* the user reads and writes that one row (the first), whatever the
\* interleaving of /chat and /reset requests.
C21_OneConversationPerUser ==
    /\ Len(conversations) <= 1
    /\ \A w \in RequestThreads :
          /\ Thread(w).pc = "handle" => Thread(w).row = 1
          /\ \A k \in 1..Len(Thread(w).held) : Thread(w).held[k] = 1

\* Two first requests of the user have both found no row.
C21_Witness ==
    \A w \in RequestThreads : Thread(w).pc = "create"

---------------------------------------------------------------------------
(* More properties of one call of chat (SpecChat).                         *)

\* Position in the log of the assistant message of iteration k.
ToolTurnAt(k) == Len(call.calls[1]) + 2 * k - 1

\* Ids of the tool_use blocks after the first in the assistant message at i.
LaterToolUseIds(h, i) ==
    {h[i].blocks[b].id : b \in {x \in 1..Len(h[i].blocks) :
        /\ h[i].blocks[x].type = "tool_use"
        /\ h[i].blocks[x].id # FirstToolUse(h, i).id}}

\* C22: every iteration of the tool-use loop runs the dispatch once, for the
\* earliest tool_use block of the response; a later tool_use block of the
\* response gets no result in that or any later iteration and leaves no
\* trace in the tool usage, so the dispatches of a call are as many as the
\* tool-use responses it went through.
C22_FirstBlockOnly ==
    call.pc \in {"calling", "returned"} =>
        LET h == call.conversation_history
        IN  /\ Len(call.dispatched) = call.iterations
            /\ Len(call.results) = call.iterations
            /\ Cardinality(ToolTurns(h)) = call.iterations
            /\ \A k \in 1..call.iterations :
                  /\ ToolTurnAt(k) \in ToolTurns(h)
                  /\ call.dispatched[k] = FirstToolUse(h, ToolTurnAt(k)).name
                  /\ ResultsFor(h[ToolTurnAt(k) + 1],
                                FirstToolUse(h, ToolTurnAt(k)).id) = {1}
                  /\ Len(h[ToolTurnAt(k) + 1].blocks) = 1
                  /\ \A id \in LaterToolUseIds(h, ToolTurnAt(k)) :
                        \A j \in 1..Len(h) : ResultsFor(h[j], id) = {}
            /\ call.tool_usage_data["used_analyze_player_routes_plays"] =
                  (\E k \in 1..call.iterations :
                      FirstToolUse(h, ToolTurnAt(k)).name
                          = "analyze_player_routes_plays")

\* chat returned after two iterations, the first on a response with two
\* tool_use blocks whose second asked for the analysis.
C22_Witness ==
    /\ call.pc = "returned"
    /\ call.iterations = 2
    /\ \E id \in LaterToolUseIds(call.conversation_history, ToolTurnAt(1)) :
          \E b \in 1..Len(call.conversation_history[ToolTurnAt(1)].blocks) :
             /\ call.conversation_history[ToolTurnAt(1)].blocks[b].type = "tool_use"
             /\ call.conversation_history[ToolTurnAt(1)].blocks[b].id = id
             /\ call.conversation_history[ToolTurnAt(1)].blocks[b].name
                   = "analyze_player_routes_plays"

\* One call of chat whose model calls all succeed and whose model, sooner or
\* later, answers without asking for a tool.
NextChatAnswered == ChatCall \/ ModelRequestsTool \/ ModelAnswers

SpecChatAnswered ==
    Init /\ [][NextChatAnswered]_vars /\ WF_vars(ModelAnswers)

\* C23: the loop of chat has no iteration count of its own and goes on for
\* as long as the model asks for tools; when every model call succeeds and
\* the model eventually answers without a tool request, chat returns the
\* final text.
C23_ReturnsFinalText ==
    (call.pc = "calling") ~> (call.pc = "returned")

\* The call ends, by a return or by an exception.
C23_Terminates ==
    (call.pc = "calling") ~> (call.pc \in {"returned", "raised"})

\* The loop is left only by a response without tool-use stop reason or by an
\* exception, never because of the number of iterations made.
C23_LeftOnlyByAnswer ==
    [][call.pc = "calling" /\ call'.pc = "returned" =>
          /\ call'.iterations = call.iterations
          /\ \E response \in FinalResponses :
                call'.conversation_history =
                    Append(call.conversation_history,
                           [role |-> "assistant",
                            content |-> FinalText(response.content)])]_vars

\* After iterations that completed, a tool request without its required
\* argument has ended the call with an exception although no model call
\* failed.
C23_Witness ==
    /\ call.pc = "raised"
    /\ call.error = "KeyError"
    /\ call.iterations >= 1

---------------------------------------------------------------------------
(* Turns about a player analysis (SpecAnalysis): the model asks for the    *)
(* analysis of a receiver, a quarterback or a running back, or answers in  *)
(* text; the user asks something or replies "yes".                         *)

AnalysisMessages == { <<"who", "won">>, <<"yes">> }

Analyze(player_name, position) ==
    Invoke("analyze_player_routes_plays",
           [player_name |-> player_name, position |-> position], QuietEnv)

AnalysisScripts ==
    { <<EndTurn>>, <<ApiError>>,
      <<ToolResponse(1, Analyze("Travis Kelce", "TE")), EndTurn>>,
      <<ToolResponse(1, Analyze("Tyreek Hill", "WR")), EndTurn>>,
      <<ToolResponse(1, Analyze("Patrick Mahomes", "QB")), EndTurn>>,
      <<ToolResponse(1, Analyze("Derrick Henry", "RB")), EndTurn>> }

AnalysisRequest ==
    /\ turns < MaxTurns
    /\ \E user_message \in AnalysisMessages, script \in AnalysisScripts :
       \E r \in {HandleChat(conversations, user_message, now + 1, script,
                            QuietEnv, [kind |-> "prose"])} :
              /\ conversations' = r.rows
              /\ last' = [r EXCEPT !.rows = <<>>]
              /\ now' = now + 1
              /\ turns' = turns + 1
              /\ UNCHANGED <<since_analysis, call, rendering>>

NextAnalysis == AnalysisRequest \/ ResetRequest

SpecAnalysis == Init /\ [][NextAnalysis]_vars

\* The names of the routes or plays of a successful analysis result.
AnalysedItems(result) ==
    IF "top_routes" \in DOMAIN result
    THEN [i \in 1..Len(result["top_routes"]) |-> result["top_routes"][i]["route_name"]]
    ELSE [i \in 1..Len(result["top_plays"]) |-> result["top_plays"][i]["play_name"]]

\* The stored analysis context holds a successful result.
StoredAnalysisSucceeded(conversation) ==
    /\ "analysis_data" \in DOMAIN conversation.recent_analysis_context
    /\ Get(conversation.recent_analysis_context["analysis_data"]["result"],
           "success", FALSE)

\* C24: on a short affirmative reply while a successful analysis is stored,
\* for routes and for plays alike, the injected primer names the player,
\* the position, the analysis type and every route or play of the result.
C24_PrimerNamesAnalysis ==
    [][ChatTurn /\ is_affirmative(last'.user_message)
                /\ StoredAnalysisSucceeded(Before) =>
          LET data == Before.recent_analysis_context["analysis_data"]
              items == AnalysedItems(data["result"])
          IN  /\ HasAnalysisPrimer(last'.priming)
              /\ InList(data["player_name"], last'.priming[1].content)
              /\ InList(data["position"], last'.priming[1].content)
              /\ InList(data["result"]["analysis_type"], last'.priming[1].content)
              /\ \A i \in 1..Len(items) :
                    InList(items[i], last'.priming[1].content)]_vars

\* A "yes" after the analysis of a quarterback got the analysis primer.
C24_Witness ==
    /\ last.op = "chat"
    /\ last.status = 200
    /\ is_affirmative(last.user_message)
    /\ HasAnalysisPrimer(last.priming)
    /\ InList("QB", last.priming[1].content)

---------------------------------------------------------------------------
(* The command-line version (SpecCli): NFLCompanion.chat of src/app.py,    *)
(* which declares two tools and appends to the list its caller passes,     *)
(* and the input loop of demo_cli.py, which keeps that list across turns.  *)
(* call.conversation_history is the list object of the loop.               *)

CliDispatch(tool_use_block, env) ==
    CASE tool_use_block.name = "get_live_scores" ->
            Returned(get_live_scores(env))
      [] tool_use_block.name = "get_team_stats" ->
            IF HasAll(tool_use_block.input, {"team_name"})
            THEN Returned(get_team_stats(tool_use_block.input["team_name"], env))
            ELSE Raised("KeyError")
      [] OTHER -> Returned(UnknownToolResult)

\* The model calls of the command-line chat from the one made with
\* conversation_history on; the list is the caller's, so what has been
\* appended is there whether chat returns or raises.
RECURSIVE CliToolLoop(_, _, _)
CliToolLoop(script, conversation_history, calls) ==
    LET response == Head(script)
        sent == Append(calls, conversation_history)
        escaped(what) ==
            [raised |-> TRUE, error |-> what, calls |-> sent,
             assistant_message |-> <<>>,
             conversation_history |-> conversation_history]
    IN  IF response.stop_reason = "error" THEN escaped("APIError")
        ELSE IF response.stop_reason = "tool_use"
        THEN IF ToolUseBlocks(response.content) = <<>>
             THEN escaped("StopIteration")
             ELSE LET tool_use_block == NextToolUseBlock(response.content)
                      d == CliDispatch(tool_use_block, response.env)
                  IN  IF d.raised THEN escaped(d.error)
                      ELSE CliToolLoop(
                              Tail(script),
                              conversation_history \o
                              << [role |-> "assistant",
                                  blocks |-> SerializedContent(response.content)],
                                 ToolResultMessage(tool_use_block, d.tool_result) >>,
                              sent)
        ELSE [raised |-> FALSE, error |-> None, calls |-> sent,
              assistant_message |-> FinalText(response.content),
              conversation_history |->
                  Append(conversation_history,
                         [role |-> "assistant",
                          content |-> FinalText(response.content)])]

\* chat(user_message, conversation_history) of src/app.py
CliChat(user_message, conversation_history, script) ==
    CliToolLoop(script,
                Append(conversation_history,
                       [role |-> "user", content |-> user_message]),
                <<>>)

CliMessages == { <<>>, <<"who", "won">>, <<"Chiefs", "record">> }

CliScripts ==
    { <<EndTurn>>,
      <<ApiError>>,
      <<ToolResponse(1, Invoke("get_live_scores", EmptyDict, QuietEnv)), EndTurn>>,
      <<ToolResponse(1, Invoke("get_live_scores", EmptyDict, QuietEnv)), ApiError>>,
      <<ToolResponse(1, StatsNoTeam)>> }

\* One pass of the while loop of main() with an input that is not quit.
CliTurn ==
    /\ turns < MaxTurns
    /\ last.op # "quit"
    /\ \E user_message \in CliMessages :
         IF user_message = <<>>
         THEN /\ last' = [op |-> "cli", user_message |-> <<>>, raised |-> FALSE,
                          error |-> None, calls |-> <<>>, printed |-> <<>>]
              /\ UNCHANGED call
         ELSE \E script \in CliScripts :
              \E r \in {CliChat(user_message, call.conversation_history, script)} :
                 /\ call' = [call EXCEPT
                               !.conversation_history = r.conversation_history]
                 /\ last' = [op |-> "cli", user_message |-> user_message,
                             raised |-> r.raised, error |-> r.error,
                             calls |-> r.calls,
                             printed |-> IF r.raised THEN <<"Error", r.error>>
                                         ELSE r.assistant_message]
    /\ turns' = turns + 1
    /\ UNCHANGED <<conversations, now, since_analysis, rendering>>

\* The user types quit, exit or q: the loop ends.
CliQuit ==
    /\ last.op # "quit"
    /\ last' = [op |-> "quit"]
    /\ UNCHANGED <<conversations, now, turns, since_analysis, call, rendering>>

NextCli == CliTurn \/ CliQuit

SpecCli == Init /\ [][NextCli]_vars

\* Two messages of role user in a row.
ConsecutiveUsers(messages) ==
    \E i \in 1..(Len(messages) - 1) :
        messages[i].role = "user" /\ messages[i + 1].role = "user"

\* C25: a turn of the command-line loop in which chat raises because a
\* model call fails leaves the loop's conversation history as it was, and
\* no message list given to the model has two user messages in a row.
C25_FailedTurnLeavesHistory ==
    [][/\ turns' = turns + 1
       /\ last'.user_message # <<>>
       => /\ (last'.error = "APIError" =>
                 call'.conversation_history = call.conversation_history)
          /\ \A k \in 1..Len(last'.calls) : ~ConsecutiveUsers(last'.calls[k])]_vars

\* A turn that followed a failed model call: the model was given a list in
\* which the message of the failed turn is followed by the new message.
C25_Witness ==
    /\ last.op = "cli"
    /\ last.calls # <<>>
    /\ ~last.raised
    /\ ConsecutiveUsers(last.calls[1])

---------------------------------------------------------------------------
(* More properties of the /chat and /reset handlers (Spec).                *)

\* C26: last_injury_check changes only on a turn answered successfully, and
\* a turn whose injury scan found updates delivers them at the head of its
\* response.
C26_FoundUpdatesDelivered ==
    [][ChatTurn =>
          /\ (conversations'[1].last_injury_check # Before.last_injury_check
                 => last'.status = 200)
          /\ (last'.scan /\ last'.injury_update_message # <<>> =>
                 /\ last'.status = 200
                 /\ IsPrefix(last'.injury_update_message, last'.body.response))]_vars

\* The scan of a turn found an update and stamped the row, and the turn was
\* answered with an error.
C26_Witness ==
    /\ last.op = "chat"
    /\ last.status = 500
    /\ last.scan
    /\ last.injury_update_message # <<>>
    /\ conversations[1].last_injury_check = <<now>>

\* No two neighbouring messages have the same role.
Alternates(messages) ==
    \A i \in 1..(Len(messages) - 1) : messages[i].role # messages[i + 1].role

\* C27: every message list the handler's chat call gives to the model
\* alternates between the roles, begins with a user message and ends with a
\* user message, whatever primers were injected and after every tool-use
\* iteration; the log chat returns ends with an assistant message.
C27_RolesAlternate ==
    last.op = "chat" =>
        /\ \A k \in 1..Len(last.calls) :
              /\ Alternates(last.calls[k])
              /\ last.calls[k][1].role = "user"
              /\ last.calls[k][Len(last.calls[k])].role = "user"
        /\ (last.status = 200 =>
              /\ Alternates(last.log)
              /\ last.log[Len(last.log)].role = "assistant")

\* Two primers were injected, the model asked for a tool and then answered.
C27_Witness ==
    /\ last.op = "chat"
    /\ last.status = 200
    /\ Len(last.priming) = 4
    /\ Len(last.calls) = 2
    /\ Len(last.calls[2]) = 7

---------------------------------------------------------------------------
(* Turns about the ESPN roster (SpecRoster): the model lists the league's  *)
(* teams, fetches a roster, asks for a team the league does not have, or   *)
(* invokes a tool twice in one turn.                                       *)

RosterMessages == { <<"who", "won">>, <<"Sharks">>, <<"trade", "advice">> }

FetchNobody ==
    Invoke("get_fantasy_team",
           [league_id |-> "123456", team_name |-> "Nobody"], QuietEnv)

RosterScripts ==
    { <<EndTurn>>,
      <<ToolResponse(1, ListTeams), EndTurn>>,
      <<ToolResponse(1, FetchSharks), EndTurn>>,
      <<ToolResponse(1, FetchNobody), EndTurn>>,
      <<ToolResponse(1, FetchSharks), ApiError>>,
      <<ToolResponse(1, FetchSharks), ToolResponse(2, FetchNobody), EndTurn>>,
      <<ToolResponse(1, FetchSharks), ToolResponse(2, ListTeams), EndTurn>>,
      <<ToolResponse(1, AnalyzeKelce),
        ToolResponse(2, Analyze("Derrick Henry", "RB")), EndTurn>> }

RosterRequest ==
    /\ turns < MaxTurns
    /\ \E user_message \in RosterMessages, script \in RosterScripts :
       \E r \in {HandleChat(conversations, user_message, now + 1, script,
                            QuietEnv, [kind |-> "prose"])} :
              /\ conversations' = r.rows
              /\ last' = [r EXCEPT !.rows = <<>>]
              /\ now' = now + 1
              /\ turns' = turns + 1
              /\ UNCHANGED <<since_analysis, call, rendering>>

NextRoster == RosterRequest \/ ResetRequest

SpecRoster == Init /\ [][NextRoster]_vars

\* C28: once awaiting_team_selection is set it stays set over every step, a
\* reset or a turn with or without tools or with a failed roster fetch,
\* except a turn whose recorded roster result is a successful full roster;
\* and every turn that begins with the flag set primes the user's message
\* as the team-name selection.
C28_AwaitingUntilRoster ==
    [][Awaiting(conversations) =>
          /\ (Awaiting(conversations') \/ (ChatTurn /\ FullRoster(last')))
          /\ (ChatTurn =>
                \E k \in 1..(Len(last'.priming) \div 2) :
                   last'.priming[2 * k - 1] =
                       TeamSelectionPrimer(last'.user_message)[1])]_vars

\* A turn that began with the flag set was primed, asked for a team the
\* league does not have, and left the flag set.
C28_Witness ==
    /\ last.op = "chat"
    /\ last.status = 200
    /\ HasTeamSelectionPrimer(last.priming)
    /\ Get(last.tool_usage, "used_get_fantasy_team", FALSE)
    /\ ~Get(FetchedTeam(last), "success", TRUE)
    /\ Awaiting(conversations)

\* The results, in order, that the log of a turn holds for the invocations
\* of the tool `name`.
ResultsOfTool(log, name) ==
    LET at == SelectSeq([i \in 1..Len(log) |-> i],
                        LAMBDA i : /\ i \in ToolTurns(log)
                                   /\ FirstToolUse(log, i).name = name)
    IN  [k \in 1..Len(at) |-> log[at[k] + 1].blocks[1].content]

LastOf(s) == s[Len(s)]

\* C29: when a turn invokes get_fantasy_team or the analysis more than
\* once, the tool usage holds the result of the last invocation only, and
\* what the turn persists follows from that result: a failed roster call
\* after a fetched roster stores no roster, and recent_analysis_context
\* holds the last analysis, failed or not.
C29_LastInvocationWins ==
    [][ChatTurn /\ last'.status = 200 =>
          LET rosters == ResultsOfTool(last'.log, "get_fantasy_team")
              analyses == ResultsOfTool(last'.log, "analyze_player_routes_plays")
              stored == conversations'[1]
          IN  /\ (rosters # <<>> =>
                    /\ last'.tool_usage["fantasy_team_data"] = LastOf(rosters)
                    /\ (~Get(LastOf(rosters), "success", FALSE) =>
                          stored.fantasy_context = Before.fantasy_context)
                    /\ (Get(LastOf(rosters), "needs_team_selection", FALSE) =>
                          /\ Awaiting(conversations')
                          /\ Get(stored.fantasy_context, "espn_roster", None)
                               = Get(Before.fantasy_context, "espn_roster", None)))
              /\ (analyses # <<>> =>
                    stored.recent_analysis_context["analysis_data"]["result"]
                        = LastOf(analyses))]_vars

\* A turn fetched the full roster and then failed to find a team: nothing
\* of the roster is stored.
C29_RosterWitness ==
    /\ last.op = "chat"
    /\ last.status = 200
    /\ Len(ResultsOfTool(last.log, "get_fantasy_team")) = 2
    /\ Get(ResultsOfTool(last.log, "get_fantasy_team")[1], "roster", <<>>) # <<>>
    /\ ~Get(ResultsOfTool(last.log, "get_fantasy_team")[2], "success", TRUE)
    /\ "espn_roster" \notin DOMAIN conversations[1].fantasy_context

\* A turn analysed a tight end and then a running back: the failure of the
\* second analysis is what is stored.
C29_Witness ==
    /\ last.op = "chat"
    /\ last.status = 200
    /\ Len(ResultsOfTool(last.log, "analyze_player_routes_plays")) = 2
    /\ Get(ResultsOfTool(last.log, "analyze_player_routes_plays")[1],
           "success", FALSE)
    /\ ~Get(conversations[1].recent_analysis_context["analysis_data"]["result"],
            "success", TRUE)

---------------------------------------------------------------------------
(* More properties of the tool handlers (SpecTools).                       *)

\* The key of fantasy_context that holds the stored value of an argument.
StoredKey(arg) ==
    CASE arg = "league_id" -> "espn_league_id"
      [] arg = "espn_s2" -> "espn_s2"
      [] arg = "swid" -> "espn_swid"
      [] arg = "team_name" -> "espn_team_name"

InjectedArguments == {"league_id", "espn_s2", "swid", "team_name"}

\* The team name of the invocation is left out and the context stores one.
TeamNameFromContext ==
    /\ "team_name" \notin DOMAIN call.block.input
    /\ TruthyStr(Get(call.fantasy_context, "espn_team_name", None))

\* C30 as stated: every league id, credential or team name the invocation
\* supplies reaches get_fantasy_team unchanged, a stored value is used only
\* for an argument the invocation leaves out, and with a stored team name
\* an invocation without a team name never gets the team-selection list.
C30_SuppliedPassedUnchanged ==
    ReturnedFrom("get_fantasy_team") =>
        /\ \A arg \in InjectedArguments :
              IF arg \in DOMAIN call.block.input
              THEN call.passed[arg] = call.block.input[arg]
              ELSE call.passed[arg] \in
                      {None, Get(call.fantasy_context, StoredKey(arg), None)}
        /\ (TeamNameFromContext =>
               ~Get(ToolResultOf, "needs_team_selection", FALSE))

\* C30, amended: every non-empty league id, credential or team name the
\* invocation supplies reaches get_fantasy_team unchanged; an argument that
\* is left out or supplied empty gets the stored value when the context
\* holds a non-empty one, and stays as it is otherwise; with a stored team
\* name an invocation without a team name never gets the team-selection
\* list.
C30_NonEmptySuppliedPassedUnchanged ==
    ReturnedFrom("get_fantasy_team") =>
        /\ \A arg \in InjectedArguments :
              IF TruthyStr(Get(call.block.input, arg, None))
              THEN call.passed[arg] = call.block.input[arg]
              ELSE IF TruthyStr(Get(call.fantasy_context, StoredKey(arg), None))
              THEN call.passed[arg] = call.fantasy_context[StoredKey(arg)]
              ELSE call.passed[arg] = Get(call.block.input, arg, None)
        /\ (TeamNameFromContext =>
               ~Get(ToolResultOf, "needs_team_selection", FALSE))

\* An invocation with a league id and no team name, made for a user whose
\* team name is stored, was given the stored name and returned the roster.
C30_Witness ==
    /\ ReturnedFrom("get_fantasy_team")
    /\ TeamNameFromContext
    /\ "league_id" \in DOMAIN call.block.input
    /\ call.passed["league_id"] = call.block.input["league_id"]
    /\ call.passed["team_name"] = call.fantasy_context["espn_team_name"]
    /\ Get(ToolResultOf, "roster", <<>>) # <<>>

====
